---------------------------- MODULE Spec2Model ----------------------------
(***************************************************************************)
(* A model of the anime list server: src/server.js, and the second copy    *)
(* of the server kept in src/unnamed/part_000.  The two files are two      *)
(* builds of the same application; the variable impl says which of them    *)
(* is running ("server" or "part") and never changes.  part_000 binds fs   *)
(* to require('fs').promises and then calls fs.existsSync while loading,   *)
(* which that object does not have; its handlers are modelled as they run  *)
(* once the process is up.                                                 *)
(*                                                                         *)
(* Node runs every callback to completion, so one action is one callback   *)
(* together with the store statement whose result it receives.  Between    *)
(* two callbacks of a request, callbacks of other requests may run: the    *)
(* requests in flight are the slots of reqs, each with its position pc.    *)
(*                                                                         *)
(* Text is modelled as sequences of one-character strings, so that the     *)
(* trimming, escaping, pattern tests and numeric conversions are computed  *)
(* as the code computes them.  A value that may be absent (undefined in a  *)
(* form, NULL in a column) is <<>> when absent and <<v>> when present.     *)
(***************************************************************************)
EXTENDS Integers, Sequences, FiniteSets, TLC

\* ------------------------------------------------------------- bounds

\* Requests that may be in flight at once.
MaxReq == 2
\* Rows the anime table may ever receive (AUTOINCREMENT never reuses ids).
MaxAnime == 2
\* Rows the users table may ever receive.
MaxUsers == 2
\* Rows the password_resets table may ever receive.
MaxResets == 2
\* Distinct salts bcrypt may draw.
MaxSalt == 1
\* Distinct values Math.random may contribute to a stored filename.
MaxRand == 1

\* ------------------------------------------------- program constants

\* Date.now() + 3600000: a reset token lives one hour.
ResetTTL == 3600000
\* datetime() of SQLite has a resolution of one second = 1000 ms.
MsPerSec == 1000
\* validateUsername: at least 3, at most 20 characters.
UsernameMin == 3
UsernameMax == 20
\* validatePassword: at least 8 characters.
PasswordMin == 8
\* part_000: isLength({ min: 3, max: 30 }) and isLength({ min: 6 }).
PartUsernameMin == 3
PartUsernameMax == 30
PartPasswordMin == 6
\* CHECK(rating >= 1 AND rating <= 10)
RatingMin == 1
RatingMax == 10

\* --------------------------------------------------------------- text

Upper ==
  {"A", "B", "C", "D", "E", "F", "G", "H", "I", "J", "K", "L", "M", "N", "O", "P", "Q",
   "R", "S", "T", "U", "V", "W", "X", "Y", "Z"}
Lower ==
  {"a", "b", "c", "d", "e", "f", "g", "h", "i", "j", "k", "l", "m", "n", "o", "p", "q",
   "r", "s", "t", "u", "v", "w", "x", "y", "z"}
Digit == {"0", "1", "2", "3", "4", "5", "6", "7", "8", "9"}
White == {" "}

\* Optional values.
None == <<>>
Some(v) == <<v>>
IsSome(o) == o # <<>>
Get(o) == o[1]

\* JavaScript's truthiness of a form field: undefined and "" are falsy.
Truthy(o) == IsSome(o) /\ Get(o) # <<>>

\* /^[a-zA-Z0-9_]+$/
IsWord(s) == Len(s) > 0 /\ \A i \in 1..Len(s) : s[i] \in Upper \cup Lower \cup Digit \cup {"_"}

\* A run of [^\s@]+ : non-empty, no white space, no @.
IsAtom(s) == Len(s) > 0 /\ \A i \in 1..Len(s) : s[i] \notin White \cup {"@"}

\* /^[^\s@]+@[^\s@]+\.[^\s@]+$/
EmailRegex(s) ==
  \E i \in 1..Len(s) : \E j \in 1..Len(s) :
     /\ i < j
     /\ s[i] = "@"
     /\ s[j] = "."
     /\ IsAtom(SubSeq(s, 1, i - 1))
     /\ IsAtom(SubSeq(s, i + 1, j - 1))
     /\ IsAtom(SubSeq(s, j + 1, Len(s)))

HasChar(s, class) == \E i \in 1..Len(s) : s[i] \in class

\* String.prototype.trim
RECURSIVE TrimLeft(_)
TrimLeft(s) == IF s # <<>> /\ Head(s) \in White THEN TrimLeft(Tail(s)) ELSE s
RECURSIVE TrimRight(_)
TrimRight(s) ==
  IF s # <<>> /\ s[Len(s)] \in White THEN TrimRight(SubSeq(s, 1, Len(s) - 1)) ELSE s
Trim(s) == TrimRight(TrimLeft(s))

\* validator.js escape(): HTML entities for & < > ' / (and for the double
\* quote, the backslash and the backtick, characters the texts here do not
\* use).
EscapeChar(c) ==
  CASE c = "&" -> <<"&", "a", "m", "p", ";">>
    [] c = "<" -> <<"&", "l", "t", ";">>
    [] c = ">" -> <<"&", "g", "t", ";">>
    [] c = "'" -> <<"&", "#", "x", "2", "7", ";">>
    [] c = "/" -> <<"&", "#", "x", "2", "F", ";">>
    [] OTHER -> <<c>>
RECURSIVE Escape(_)
Escape(s) == IF s = <<>> THEN <<>> ELSE EscapeChar(Head(s)) \o Escape(Tail(s))

\* The value of a decimal numeral.
DigitVal(c) ==
  CASE c = "0" -> 0 [] c = "1" -> 1 [] c = "2" -> 2 [] c = "3" -> 3 [] c = "4" -> 4
    [] c = "5" -> 5 [] c = "6" -> 6 [] c = "7" -> 7 [] c = "8" -> 8 [] c = "9" -> 9
IsNumeral(s) == Len(s) > 0 /\ \A i \in 1..Len(s) : s[i] \in Digit
RECURSIVE NumeralVal(_)
NumeralVal(s) ==
  IF s = <<>> THEN 0 ELSE 10 * NumeralVal(SubSeq(s, 1, Len(s) - 1)) + DigitVal(s[Len(s)])


\* ------------------------------------------------- JavaScript and SQL values

\* Number(x) of a form field: the value of a numeral, 0 of the empty (or
\* all-blank) string, NaN of anything else and of undefined.
NaN == <<"nan">>
Num(n) == <<"num", n>>
ToNumber(o) ==
  IF ~IsSome(o) THEN NaN
  ELSE IF Trim(Get(o)) = <<>> THEN Num(0)
  ELSE IF IsNumeral(Trim(Get(o))) THEN Num(NumeralVal(Trim(Get(o))))
  ELSE NaN
\* x < n and x > n with x converted to a number: false when x is NaN.
JsLess(x, n) == x # NaN /\ x[2] < n
JsGreater(x, n) == x # NaN /\ x[2] > n

\* Values a column holds.
SqlNull == <<"null">>
SqlInt(n) == <<"int", n>>
SqlText(s) == <<"text", s>>
\* A bound text parameter in a column of INTEGER affinity: a well-formed
\* integer literal becomes an integer, any other text stays text.
IntAffinity(s) == IF IsNumeral(s) THEN SqlInt(NumeralVal(s)) ELSE SqlText(s)
\* node-sqlite3's binding of a JavaScript value: undefined and null bind
\* NULL, NaN binds NULL, a string binds text, a number binds a number.
BindText(o) == IF IsSome(o) THEN SqlText(Get(o)) ELSE SqlNull
BindIntCol(o) == IF IsSome(o) THEN IntAffinity(Get(o)) ELSE SqlNull
BindNumber(x) == IF x = NaN THEN SqlNull ELSE SqlInt(x[2])
\* x || null
OrNull(o) == IF Truthy(o) THEN o ELSE None

\* A column without the CHECK: every value passes.
RatingCheckOff(v) == TRUE

\* CHECK(rating >= 1 AND rating <= 10): NULL passes, text compares greater
\* than every number and fails.
RatingCheck(v) ==
  \/ v = SqlNull
  \/ v[1] = "int" /\ v[2] >= RatingMin /\ v[2] <= RatingMax

\* bcrypt.hash(password, 10) and bcrypt.compare.
Salts == 1..MaxSalt
Hash(p, salt) == <<"bcrypt", salt, p>>
Compare(p, h) == h[1] = "bcrypt" /\ h[3] = p

\* ------------------------------------------------------------ responses

Redirect(to) == [type |-> "redirect", target |-> to, error |-> "null", success |-> "null", data |-> <<>>]
Render(view, err, succ, d) == [type |-> "render", target |-> view, error |-> err, success |-> succ, data |-> d]
Status500(msg) == [type |-> "status500", target |-> "null", error |-> msg, success |-> "null", data |-> <<>>]

\* ---------------------------------------------------------------- state

VARIABLES
  impl,         \* "server": src/server.js runs; "part": src/unnamed/part_000 runs
  now,          \* the wall clock, in milliseconds
  users,        \* table users
  nextUserId,   \* its AUTOINCREMENT counter
  anime,        \* table anime
  nextAnimeId,  \* its AUTOINCREMENT counter
  resets,       \* table password_resets
  nextResetId,  \* its AUTOINCREMENT counter
  files,        \* directory uploads/: stored filename -> who wrote its content
  sessions,     \* the session store: browser -> userId (0: no session)
  reqs,         \* the requests in flight
  last          \* the request the last step answered, with its response

vars == <<impl, now, users, nextUserId, anime, nextAnimeId, resets, nextResetId,
          files, sessions, reqs, last>>

Slots == 1..MaxReq
Browsers == {"b1", "b2"}

\* A request: its route, its position, the browser, req.session.userId as
\* loaded when the request arrived, req.params.id, req.body, the uploaded
\* file, the handler's locals, the fs.unlink it has issued and not yet seen
\* executed, whether a store statement of it failed, and its response.
NoReq ==
  [kind |-> "none", pc |-> "done", b |-> "b1", uid |-> 0, id |-> 0, body |-> <<>>,
   file |-> None, loc |-> <<>>, unlink |-> None, err |-> FALSE, resp |-> None]
NewReq(kind, pc, b, id, body, file) ==
  [kind |-> kind, pc |-> pc, b |-> b, uid |-> sessions[b], id |-> id, body |-> body,
   file |-> file, loc |-> <<>>, unlink |-> None, err |-> FALSE, resp |-> None]

\* A slot is free when its request has responded and has nothing pending.
Free(s) == reqs[s].pc = "done" /\ reqs[s].unlink = None

Respond(r, resp) == [r EXCEPT !.pc = "done", !.resp = Some(resp)]

\* One step of the request in slot s, which leaves it as r: a request that
\* has answered is shown in last; a finished request leaves its slot, but for
\* the unlink it still waits for.
Step(s, r) ==
  /\ reqs' = [reqs EXCEPT ![s] = IF r.pc = "done" THEN [NoReq EXCEPT !.unlink = r.unlink]
                                  ELSE [r EXCEPT !.resp = None]]
  /\ last' = IF IsSome(r.resp) THEN Some(r) ELSE None

\* A gate that lets every request through.
isAuthenticatedAlways(b) == TRUE

\* isAuthenticated: next() when req.session.userId is truthy.
isAuthenticated(b) == sessions[b] # 0

Init ==
  /\ impl \in {"server", "part"}
  /\ now = 0
  /\ users = {}
  /\ nextUserId = 1
  /\ anime = {}
  /\ nextAnimeId = 1
  /\ resets = {}
  /\ nextResetId = 1
  /\ files = <<>>
  /\ sessions = [b \in Browsers |-> 0]
  /\ reqs = [s \in Slots |-> NoReq]
  /\ last = None


\* ------------------------------------------------------ store statements

\* SELECT * FROM anime WHERE id = ? AND user_id = ?  (db.get: a row or none)
SelectAnime(id, uid) ==
  IF \E a \in anime : a.id = id /\ a.user_id = uid
  THEN Some(CHOOSE a \in anime : a.id = id /\ a.user_id = uid)
  ELSE None

\* The orders ORDER BY created_at DESC may return the rows of S in: rows of
\* the same second come in either order.
SortedDesc(S) ==
  {q \in [1..Cardinality(S) -> S] :
     /\ \A i, j \in 1..Cardinality(S) : i # j => q[i] # q[j]
     /\ \A i, j \in 1..Cardinality(S) : i < j => q[i].created_at >= q[j].created_at}

\* A listing without its WHERE clause.
SelectAnimeOfAll(uid) == SortedDesc(anime)

\* SELECT * FROM anime WHERE user_id = ? ORDER BY created_at DESC
SelectAnimeOf(uid) == SortedDesc({a \in anime : a.user_id = uid})

\* The constraints of table anime: title TEXT NOT NULL and the CHECK on rating.
AnimeConstraints(title, rating) == title # SqlNull /\ RatingCheck(rating)

\* CURRENT_TIMESTAMP: the clock, to the second.
CurrentTimestamp == now \div MsPerSec

\* ------------------------------------------------------------ uploads

\* fileFilter: the extension and the MIME type both name an image type.
ImageExts == {".jpeg", ".jpg", ".png", ".gif", ".webp"}
ImageMimes == {"image/jpeg", "image/png", "image/gif", "image/webp"}
fileFilter(f) == f.ext \in ImageExts /\ f.mime \in ImageMimes

\* The stored filename.  server.js: Date.now() + '-' + file.originalname;
\* part_000: Date.now() + '-' + Math.round(Math.random() * 1e9) + extname.
Rands == 1..MaxRand
StoredName(f, rand) ==
  IF impl = "server" THEN <<now, f.base, f.ext>> ELSE <<now, rand, f.ext>>

\* multer's diskStorage writes the file under its stored name, replacing a
\* file of that name.
WriteFile(name, who) == (name :> who) @@ files

\* fs.unlink: the file is gone afterwards (ENOENT is swallowed by the callers).
RemoveFile(name) == [n \in (DOMAIN files) \ {name} |-> files[n]]

\* What multer leaves for the handler: "error" (next(err) / the callback's
\* err), or the stored file's name, or no file.
\*   server.js: a file the filter refuses is an error; part_000: it is skipped.
\*   A file over limits.fileSize is an error in both, and multer removes it.
UploadOutcome(file, rand) ==
  IF ~IsSome(file) THEN [err |-> FALSE, name |-> None]
  ELSE IF ~fileFilter(Get(file))
       THEN [err |-> impl = "server", name |-> None]
  ELSE IF Get(file).big THEN [err |-> TRUE, name |-> None]
  ELSE [err |-> FALSE, name |-> Some(StoredName(Get(file), rand))]

\* ------------------------------------------------- entries: POST /anime/add

AddsInFlight == Cardinality({s \in Slots : reqs[s].kind = "add" /\ reqs[s].pc # "done"})

\* isAuthenticated, then multer waits for the body.
AddStart(s, b, body, file) ==
  /\ Free(s)
  /\ nextAnimeId + AddsInFlight <= MaxAnime
  /\ Step(s,
       IF isAuthenticated(b) THEN NewReq("add", "upload", b, 0, body, file)
       ELSE Respond(NewReq("add", "done", b, 0, body, file), Redirect("/login")))
  /\ UNCHANGED <<impl, now, users, nextUserId, anime, nextAnimeId, resets, nextResetId,
                 files, sessions>>

\* part_000's cleaning of the fields: title trimmed, rating = Number(rating),
\* episodes a number or null, genre trimmed or null.
PartAddFields(body) ==
  [title |-> Trim(IF Truthy(body.title) THEN Get(body.title) ELSE <<>>),
   rating |-> ToNumber(body.rating),
   episodes |-> IF Truthy(body.episodes) THEN BindNumber(ToNumber(body.episodes)) ELSE SqlNull,
   genre |-> IF Truthy(body.genre) /\ Trim(Get(body.genre)) # <<>>
             THEN SqlText(Trim(Get(body.genre))) ELSE SqlNull]

\* The handler's test of the fields before the INSERT.
AddFieldsOk(body) ==
  IF impl = "server" THEN Truthy(body.title) /\ Truthy(body.rating)
  ELSE /\ PartAddFields(body).title # <<>>
       /\ PartAddFields(body).rating # NaN
       /\ ~JsLess(PartAddFields(body).rating, RatingMin)
       /\ ~JsGreater(PartAddFields(body).rating, RatingMax)

\* The values the INSERT binds.
AddValues(body) ==
  IF impl = "server"
  THEN [title |-> BindText(body.title), rating |-> BindIntCol(body.rating),
        episodes |-> BindIntCol(OrNull(body.episodes)), genre |-> BindText(OrNull(body.genre))]
  ELSE [title |-> SqlText(PartAddFields(body).title),
        rating |-> BindNumber(PartAddFields(body).rating),
        episodes |-> PartAddFields(body).episodes, genre |-> PartAddFields(body).genre]

\* multer stores the file, then the handler checks the fields.
AddUpload(s, rand) ==
  LET r == reqs[s]
      up == UploadOutcome(r.file, rand)
  IN /\ r.kind = "add" /\ r.pc = "upload"
     /\ files' = IF IsSome(up.name) THEN WriteFile(Get(up.name), r.uid) ELSE files
     /\ Step(s,
          IF up.err
          THEN IF impl = "server" THEN Respond(r, Status500("upload"))
               ELSE Respond(r, Redirect("/dashboard?error=upload"))
          ELSE IF ~AddFieldsOk(r.body)
          THEN Respond(r, Redirect(IF impl = "server"
                                   THEN "/dashboard?error=Title dan rating harus diisi!"
                                   ELSE "/dashboard?error=Judul dan rating (1-10) wajib diisi!"))
          ELSE [r EXCEPT !.pc = "insert", !.loc = up.name])
     /\ UNCHANGED <<impl, now, users, nextUserId, anime, nextAnimeId, resets, nextResetId,
                    sessions>>

\* INSERT INTO anime (...) and its callback.
AddInsert(s, ok) ==
  LET r == reqs[s]
      v == AddValues(r.body)
      good == ok /\ AnimeConstraints(v.title, v.rating)
      row == [id |-> nextAnimeId, user_id |-> r.uid, title |-> v.title, rating |-> v.rating,
              episodes |-> v.episodes, genre |-> v.genre, image_path |-> r.loc,
              created_at |-> CurrentTimestamp]
  IN /\ r.kind = "add" /\ r.pc = "insert"
     /\ anime' = IF good THEN anime \cup {row} ELSE anime
     /\ nextAnimeId' = IF good THEN nextAnimeId + 1 ELSE nextAnimeId
     /\ Step(s,
          IF good
          THEN Respond(r, Redirect(IF impl = "server" THEN "/dashboard"
                                   ELSE "/dashboard?success=Anime berhasil ditambahkan!"))
          ELSE Respond([r EXCEPT !.err = ~ok],
                       Redirect(IF impl = "server" THEN "/dashboard?error=Gagal menambahkan anime!"
                                ELSE "/dashboard?error=Gagal menyimpan anime")))
     /\ UNCHANGED <<impl, now, users, nextUserId, resets, nextResetId, files, sessions>>

\* --------------------------------------------- entries: GET /anime/edit/:id

\* isAuthenticated, then db.get is issued.
EditStart(s, b, id) ==
  /\ Free(s)
  /\ Step(s,
       IF isAuthenticated(b) THEN NewReq("edit", "select", b, id, <<>>, None)
       ELSE Respond(NewReq("edit", "done", b, id, <<>>, None), Redirect("/login")))
  /\ UNCHANGED <<impl, now, users, nextUserId, anime, nextAnimeId, resets, nextResetId,
                 files, sessions>>

\* A lookup by id alone, without the owner: what the edit page must not do.
EditLookupAnyOwner(id, uid) ==
  IF \E a \in anime : a.id = id THEN Some(CHOOSE a \in anime : a.id = id) ELSE None

\* The row of the edit page: the SELECT filters by id and by the session's user.
EditLookup(id, uid) == SelectAnime(id, uid)

\* SELECT ... WHERE id = ? AND user_id = ? and its callback.
EditSelect(s, ok) ==
  LET r == reqs[s]
      row == IF ok THEN EditLookup(r.id, r.uid) ELSE None
  IN /\ r.kind = "edit" /\ r.pc = "select"
     /\ Step(s,
          IF ~IsSome(row) THEN Respond([r EXCEPT !.err = ~ok], Redirect("/dashboard"))
          ELSE Respond(r, Render("edit", "null", "null", row)))
     /\ UNCHANGED <<impl, now, users, nextUserId, anime, nextAnimeId, resets, nextResetId,
                    files, sessions>>

\* ------------------------------------------------- entries: GET /dashboard

DashboardStart(s, b) ==
  /\ Free(s)
  /\ Step(s,
       IF isAuthenticated(b) THEN NewReq("dashboard", "select", b, 0, <<>>, None)
       ELSE Respond(NewReq("dashboard", "done", b, 0, <<>>, None), Redirect("/login")))
  /\ UNCHANGED <<impl, now, users, nextUserId, anime, nextAnimeId, resets, nextResetId,
                 files, sessions>>

\* SELECT ... WHERE user_id = ? ORDER BY created_at DESC and its callback.
DashboardSelect(s, ok) ==
  LET r == reqs[s]
  IN /\ r.kind = "dashboard" /\ r.pc = "select"
     /\ \E list \in (IF ok THEN SelectAnimeOf(r.uid) ELSE {<<>>}) :
          Step(s,
            IF ok THEN Respond(r, Render("dashboard", "null", "null", <<list>>))
            ELSE Respond([r EXCEPT !.err = TRUE], Status500("Database error")))
     /\ UNCHANGED <<impl, now, users, nextUserId, anime, nextAnimeId, resets, nextResetId,
                    files, sessions>>


\* ------------------------------------------ entries: POST /anime/update/:id

UpdateStart(s, b, id, body, file) ==
  /\ Free(s)
  /\ Step(s,
       IF isAuthenticated(b) THEN NewReq("update", "upload", b, id, body, file)
       ELSE Respond(NewReq("update", "done", b, id, body, file), Redirect("/login")))
  /\ UNCHANGED <<impl, now, users, nextUserId, anime, nextAnimeId, resets, nextResetId,
                 files, sessions>>

\* part_000 tests the fields before it reads the row; server.js tests nothing.
UpdateFieldsOk(body) ==
  \/ impl = "server"
  \/ /\ Truthy(body.title)
     /\ Truthy(body.rating)
     /\ ~JsLess(ToNumber(body.rating), RatingMin)
     /\ ~JsGreater(ToNumber(body.rating), RatingMax)

\* The values the UPDATE binds.
UpdateValues(body) ==
  IF impl = "server"
  THEN [title |-> BindText(body.title), rating |-> BindIntCol(body.rating),
        episodes |-> BindIntCol(OrNull(body.episodes)), genre |-> BindText(OrNull(body.genre))]
  ELSE [title |-> SqlText(Trim(Get(body.title))),
        rating |-> BindNumber(ToNumber(body.rating)),
        episodes |-> BindIntCol(OrNull(body.episodes)),
        genre |-> IF Truthy(body.genre) /\ Trim(Get(body.genre)) # <<>>
                  THEN SqlText(Trim(Get(body.genre))) ELSE SqlNull]

\* multer stores the file; then the handler issues its SELECT.
UpdateUpload(s, rand) ==
  LET r == reqs[s]
      up == UploadOutcome(r.file, rand)
  IN /\ r.kind = "update" /\ r.pc = "upload"
     /\ files' = IF IsSome(up.name) THEN WriteFile(Get(up.name), r.uid) ELSE files
     /\ Step(s,
          IF up.err
          THEN IF impl = "server" THEN Respond(r, Status500("upload"))
               ELSE Respond(r, Redirect("/anime/edit/:id?error=upload"))
          ELSE IF ~UpdateFieldsOk(r.body)
          THEN Respond(r, Redirect("/anime/edit/:id?error=Judul & rating wajib (1-10)"))
          ELSE [r EXCEPT !.pc = "select", !.loc = [file |-> up.name, img |-> None]])
     /\ UNCHANGED <<impl, now, users, nextUserId, anime, nextAnimeId, resets, nextResetId,
                    sessions>>

\* SELECT ... WHERE id = ? AND user_id = ? and its callback: the image is
\* replaced when a file came, and the old file's unlink is issued.
\*   server.js: no row (or an error) ends the request; the unlink is not awaited.
\*   part_000: no row reads as {} and the request goes on; the unlink is awaited.
UpdateSelect(s, ok) ==
  LET r == reqs[s]
      row == IF ok THEN SelectAnime(r.id, r.uid) ELSE None
      old == IF IsSome(row) THEN Get(row).image_path ELSE None
      img == IF IsSome(r.loc.file) THEN r.loc.file ELSE old
      release == IsSome(r.loc.file) /\ IsSome(old)
      r1 == [r EXCEPT !.err = ~ok, !.loc = [file |-> r.loc.file, img |-> img]]
  IN /\ r.kind = "update" /\ r.pc = "select"
     /\ Step(s,
          IF impl = "server"
          THEN IF ~IsSome(row) THEN Respond(r1, Redirect("/dashboard"))
               ELSE [r1 EXCEPT !.pc = "write", !.unlink = IF release THEN old ELSE None]
          ELSE IF release THEN [r1 EXCEPT !.pc = "unlink", !.unlink = old]
               ELSE [r1 EXCEPT !.pc = "write"])
     /\ UNCHANGED <<impl, now, users, nextUserId, anime, nextAnimeId, resets, nextResetId,
                    files, sessions>>

\* An UPDATE without a WHERE clause.
UpdateTargetsAll(id, uid) == anime

\* The rows the UPDATE's WHERE clause selects.
\*   server.js: WHERE id = ?          part_000: WHERE id = ? AND user_id = ?
UpdateTargets(id, uid) ==
  IF impl = "server" THEN {a \in anime : a.id = id}
  ELSE {a \in anime : a.id = id /\ a.user_id = uid}

\* UPDATE anime SET ... and its callback.
UpdateWrite(s, ok) ==
  LET r == reqs[s]
      v == UpdateValues(r.body)
      good == ok /\ (UpdateTargets(r.id, r.uid) = {} \/ AnimeConstraints(v.title, v.rating))
      new(a) == [a EXCEPT !.title = v.title, !.rating = v.rating, !.episodes = v.episodes,
                          !.genre = v.genre, !.image_path = r.loc.img]
  IN /\ r.kind = "update" /\ r.pc = "write"
     /\ anime' = IF good
                 THEN (anime \ UpdateTargets(r.id, r.uid))
                        \cup {new(a) : a \in UpdateTargets(r.id, r.uid)}
                 ELSE anime
     /\ Step(s,
          IF impl = "server" THEN Respond([r EXCEPT !.err = r.err \/ ~ok], Redirect("/dashboard"))
          ELSE IF good THEN Respond(r, Redirect("/dashboard?success=Data berhasil diperbarui"))
          ELSE Respond([r EXCEPT !.err = r.err \/ ~ok],
                       Redirect("/anime/edit/:id?error=Gagal memperbarui")))
     /\ UNCHANGED <<impl, now, users, nextUserId, nextAnimeId, resets, nextResetId,
                    files, sessions>>

\* ------------------------------------------ entries: POST /anime/delete/:id

DeleteStart(s, b, id) ==
  /\ Free(s)
  /\ Step(s,
       IF isAuthenticated(b) THEN NewReq("delete", "select", b, id, <<>>, None)
       ELSE Respond(NewReq("delete", "done", b, id, <<>>, None), Redirect("/login")))
  /\ UNCHANGED <<impl, now, users, nextUserId, anime, nextAnimeId, resets, nextResetId,
                 files, sessions>>

\* SELECT ... WHERE id = ? AND user_id = ? and its callback: no row ends the
\* request; a row with an image has its file's unlink issued (server.js) or
\* awaited (part_000).
DeleteSelect(s, ok) ==
  LET r == reqs[s]
      row == IF ok THEN SelectAnime(r.id, r.uid) ELSE None
      old == IF IsSome(row) THEN Get(row).image_path ELSE None
      r1 == [r EXCEPT !.err = ~ok]
  IN /\ r.kind = "delete" /\ r.pc = "select"
     /\ Step(s,
          IF ~IsSome(row) THEN Respond(r1, Redirect("/dashboard"))
          ELSE IF impl = "server" THEN [r1 EXCEPT !.pc = "write", !.unlink = old]
          ELSE IF IsSome(old) THEN [r1 EXCEPT !.pc = "unlink", !.unlink = old]
          ELSE [r1 EXCEPT !.pc = "write"])
     /\ UNCHANGED <<impl, now, users, nextUserId, anime, nextAnimeId, resets, nextResetId,
                    files, sessions>>

\* A DELETE without a WHERE clause.
DeleteTargetsAll(id, uid) == anime

\* The rows the DELETE's WHERE clause selects.
\*   server.js: WHERE id = ?          part_000: WHERE id = ? AND user_id = ?
DeleteTargets(id, uid) ==
  IF impl = "server" THEN {a \in anime : a.id = id}
  ELSE {a \in anime : a.id = id /\ a.user_id = uid}

\* DELETE FROM anime ... and its callback.
DeleteWrite(s, ok) ==
  LET r == reqs[s]
  IN /\ r.kind = "delete" /\ r.pc = "write"
     /\ anime' = IF ok THEN anime \ DeleteTargets(r.id, r.uid) ELSE anime
     /\ Step(s,
          IF impl = "server" THEN Respond([r EXCEPT !.err = r.err \/ ~ok], Redirect("/dashboard"))
          ELSE IF ok THEN Respond(r, Redirect("/dashboard?success=Anime dihapus"))
          ELSE Respond([r EXCEPT !.err = TRUE], Redirect("/dashboard?error=Gagal menghapus")))
     /\ UNCHANGED <<impl, now, users, nextUserId, nextAnimeId, resets, nextResetId,
                    files, sessions>>

\* ------------------------------------------------------------ fs.unlink

\* server.js: fs.unlink(path, () => {}) runs whenever the file system gets to
\* it, also after the response; its error is dropped.
Unlink(s, ok) ==
  LET r == reqs[s]
  IN /\ impl = "server"
     /\ IsSome(r.unlink)
     /\ files' = IF ok THEN RemoveFile(Get(r.unlink)) ELSE files
     /\ reqs' = [reqs EXCEPT ![s].unlink = None]
     /\ last' = None
     /\ UNCHANGED <<impl, now, users, nextUserId, anime, nextAnimeId, resets, nextResetId,
                    sessions>>

\* An awaited removal without its .catch: a failure is thrown to the handler's
\* catch, which answers with the error.
AwaitUnlinkThrows(s, ok) ==
  LET r == reqs[s]
  IN /\ impl = "part"
     /\ r.pc = "unlink"
     /\ files' = IF ok THEN RemoveFile(Get(r.unlink)) ELSE files
     /\ IF ok
        THEN reqs' = [reqs EXCEPT ![s].unlink = None, ![s].pc = "write"] /\ last' = None
        ELSE Step(s, Respond([r EXCEPT !.unlink = None], Redirect("/dashboard?error=Gagal")))
     /\ UNCHANGED <<impl, now, users, nextUserId, anime, nextAnimeId, resets, nextResetId,
                    sessions>>

\* part_000: await fs.unlink(path).catch(() => {}), then the handler goes on.
AwaitUnlink(s, ok) ==
  LET r == reqs[s]
  IN /\ impl = "part"
     /\ r.pc = "unlink"
     /\ files' = IF ok THEN RemoveFile(Get(r.unlink)) ELSE files
     /\ reqs' = [reqs EXCEPT ![s].unlink = None, ![s].pc = "write"]
     /\ last' = None
     /\ UNCHANGED <<impl, now, users, nextUserId, anime, nextAnimeId, resets, nextResetId,
                    sessions>>

\* ---------------------------------------------------------------- clock

\* Time passes: the clock moves to a later instant of T.
Tick(T) ==
  /\ \E t \in T : t > now /\ now' = t
  /\ last' = None
  /\ UNCHANGED <<impl, users, nextUserId, anime, nextAnimeId, resets, nextResetId,
                 files, sessions, reqs>>


\* ---------------------------------------------------------- validation

\* validateUsername (server.js): "ok" or the message of the first failed rule.
validateUsername(o) ==
  IF ~Truthy(o) \/ Len(Get(o)) < UsernameMin THEN "Username minimal 3 karakter"
  ELSE IF Len(Get(o)) > UsernameMax THEN "Username maksimal 20 karakter"
  ELSE IF ~IsWord(Get(o)) THEN "Username hanya boleh berisi huruf, angka, dan underscore"
  ELSE "ok"

\* validateEmail (server.js)
validateEmail(o) ==
  IF ~Truthy(o) \/ ~EmailRegex(Get(o)) THEN "Format email tidak valid" ELSE "ok"

\* validatePassword (server.js)
validatePassword(o) ==
  IF ~Truthy(o) \/ Len(Get(o)) < PasswordMin THEN "Password minimal 8 karakter"
  ELSE IF ~HasChar(Get(o), Upper) THEN "Password harus mengandung huruf besar"
  ELSE IF ~HasChar(Get(o), Lower) THEN "Password harus mengandung huruf kecil"
  ELSE IF ~HasChar(Get(o), Digit) THEN "Password harus mengandung angka"
  ELSE "ok"

\* The checks of POST /register before the store is asked (server.js).
RegisterInputError(body) ==
  IF ~Truthy(body.username) \/ ~Truthy(body.email) \/ ~Truthy(body.password)
       \/ ~Truthy(body.confirmPassword)
  THEN "Semua field harus diisi!"
  ELSE IF ~Truthy(body.terms) THEN "Anda harus menyetujui Syarat dan Ketentuan!"
  ELSE IF validateUsername(body.username) # "ok" THEN validateUsername(body.username)
  ELSE IF validateEmail(body.email) # "ok" THEN validateEmail(body.email)
  ELSE IF validatePassword(body.password) # "ok" THEN validatePassword(body.password)
  ELSE IF body.password # body.confirmPassword
  THEN "Password dan konfirmasi password tidak cocok!"
  ELSE "ok"

\* part_000: body('username').trim().isLength({min: 3, max: 30}).escape() and
\* body('password').isLength({min: 6}).  An absent field counts as ''.
Field(o) == IF IsSome(o) THEN Get(o) ELSE <<>>
PartUsername(body) == Escape(Trim(Field(body.username)))
PartRegisterInputError(body) ==
  IF Len(Trim(Field(body.username))) < PartUsernameMin
       \/ Len(Trim(Field(body.username))) > PartUsernameMax
       \/ Len(Field(body.password)) < PartPasswordMin
  THEN "Invalid value"
  ELSE "ok"

\* The username the INSERT of a registration binds.
RegisterUsername(body) ==
  IF impl = "server" THEN Get(body.username) ELSE PartUsername(body)

\* ------------------------------------------------------ table users

\* A SELECT by username that finds nobody: the existence check left out.
UserByUsernameUnchecked(name) == None

\* SELECT * FROM users WHERE username = ?
UserByUsername(name) ==
  IF \E u \in users : u.username = name
  THEN Some(CHOOSE u \in users : u.username = name) ELSE None

\* SELECT * FROM users WHERE email = ?
UserByEmail(mail) ==
  IF \E u \in users : u.email = Some(mail)
  THEN Some(CHOOSE u \in users : u.email = Some(mail)) ELSE None

\* The rows login's SELECT may return.
\*   server.js: WHERE username = ? OR email = ?     part_000: WHERE username = ?
LoginMatches(ident) ==
  IF impl = "server" THEN {u \in users : u.username = ident \/ u.email = Some(ident)}
  ELSE {u \in users : u.username = ident}

\* username TEXT UNIQUE NOT NULL, email TEXT UNIQUE NOT NULL (server.js).
UsersUnique(name, mail) ==
  \A u \in users : u.username # name /\ (IsSome(mail) => u.email # mail)

\* What a registration answers when it finds its username taken.
DuplicateUsername ==
  IF impl = "server" THEN "Username sudah digunakan!" ELSE "Username sudah digunakan"

RegistersInFlight ==
  Cardinality({s \in Slots : reqs[s].kind = "register" /\ reqs[s].pc # "done"})

\* ------------------------------------------------------ POST /register

\* The handler up to its first store statement.
\*   server.js: the input checks, then SELECT by username is issued.
\*   part_000: the validators, bcrypt.hash, then the INSERT is issued.
RegisterStart(s, b, body, salt) ==
  /\ Free(s)
  /\ nextUserId + RegistersInFlight <= MaxUsers
  /\ Step(s,
       IF impl = "server"
       THEN IF RegisterInputError(body) # "ok"
            THEN Respond(NewReq("register", "done", b, 0, body, None),
                         Render("register", RegisterInputError(body), "null", <<>>))
            ELSE NewReq("register", "checkUser", b, 0, body, None)
       ELSE IF PartRegisterInputError(body) # "ok"
            THEN Respond(NewReq("register", "done", b, 0, body, None),
                         Render("register", PartRegisterInputError(body), "null", <<>>))
            ELSE [NewReq("register", "insert", b, 0, body, None)
                    EXCEPT !.loc = Hash(Get(body.password), salt)])
  /\ UNCHANGED <<impl, now, users, nextUserId, anime, nextAnimeId, resets, nextResetId,
                 files, sessions>>

\* server.js: SELECT * FROM users WHERE username = ? and its callback (the
\* callback does not look at err).
RegisterCheckUser(s, ok) ==
  LET r == reqs[s]
      existingUser == IF ok THEN UserByUsername(Get(r.body.username)) ELSE None
  IN /\ r.kind = "register" /\ r.pc = "checkUser"
     /\ Step(s,
          IF IsSome(existingUser)
          THEN Respond(r, Render("register", DuplicateUsername, "null", <<>>))
          ELSE [r EXCEPT !.pc = "checkEmail", !.err = ~ok])
     /\ UNCHANGED <<impl, now, users, nextUserId, anime, nextAnimeId, resets, nextResetId,
                    files, sessions>>

\* server.js: SELECT * FROM users WHERE email = ? and its callback, which
\* hashes the password and issues the INSERT.
RegisterCheckEmail(s, ok, salt) ==
  LET r == reqs[s]
      existingEmail == IF ok THEN UserByEmail(Get(r.body.email)) ELSE None
  IN /\ r.kind = "register" /\ r.pc = "checkEmail"
     /\ Step(s,
          IF IsSome(existingEmail)
          THEN Respond(r, Render("register", "Email sudah terdaftar!", "null", <<>>))
          ELSE [r EXCEPT !.pc = "insert", !.err = r.err \/ ~ok,
                         !.loc = Hash(Get(r.body.password), salt)])
     /\ UNCHANGED <<impl, now, users, nextUserId, anime, nextAnimeId, resets, nextResetId,
                    files, sessions>>

\* A table users without its UNIQUE constraints: every INSERT goes through.
InsertUserUnconstrained(name, mail) == TRUE

\* Whether the INSERT INTO users goes through: the UNIQUE constraints of the
\* table decide.
InsertUserOk(name, mail) == UsersUnique(name, mail)

\* What the request answers when its INSERT fails.
\*   server.js: one message for every error.
\*   part_000: 'Username sudah digunakan' when the error names UNIQUE.
RegisterInsertError(unique) ==
  IF impl = "server" THEN "Terjadi kesalahan saat mendaftar!"
  ELSE IF unique THEN DuplicateUsername
  ELSE "Terjadi kesalahan server"

\* INSERT INTO users (...) and its callback.
RegisterInsert(s, ok) ==
  LET r == reqs[s]
      name == RegisterUsername(r.body)
      mail == IF impl = "server" THEN r.body.email ELSE None
      good == ok /\ InsertUserOk(name, mail)
      row == [id |-> nextUserId, username |-> name, email |-> mail, password |-> r.loc,
              newsletter |-> IF impl = "server" /\ Truthy(r.body.newsletter) THEN 1 ELSE 0]
  IN /\ r.kind = "register" /\ r.pc = "insert"
     /\ users' = IF good THEN users \cup {row} ELSE users
     /\ nextUserId' = IF good THEN nextUserId + 1 ELSE nextUserId
     /\ Step(s,
          IF good
          THEN Respond(r, Redirect(IF impl = "server"
                                   THEN "/login?success=Registrasi berhasil! Silakan login."
                                   ELSE "/login?success=Registrasi berhasil, silakan login"))
          ELSE Respond([r EXCEPT !.err = r.err \/ ~ok],
                       Render("register", RegisterInsertError(ok), "null", <<>>)))
     /\ UNCHANGED <<impl, now, anime, nextAnimeId, resets, nextResetId, files, sessions>>


\* --------------------------------------------------------- POST /login

\* The generic failure of a login.
LoginFailed ==
  IF impl = "server" THEN "Username/email atau password salah!"
  ELSE "Username atau password salah"

\* The handler up to its SELECT.  server.js refuses empty fields first.
LoginStart(s, b, body) ==
  /\ Free(s)
  /\ Step(s,
       IF impl = "server" /\ (~Truthy(body.username) \/ ~Truthy(body.password))
       THEN Respond(NewReq("login", "done", b, 0, body, None),
                    Render("login", "Username dan password harus diisi!", "null", <<>>))
       ELSE NewReq("login", "select", b, 0, body, None))
  /\ UNCHANGED <<impl, now, users, nextUserId, anime, nextAnimeId, resets, nextResetId,
                 files, sessions>>

\* The SELECT and its callback, up to bcrypt.compare.
\*   part_000 hands bcrypt.compare an absent password, which throws.
LoginSelect(s, ok) ==
  LET r == reqs[s]
  IN /\ r.kind = "login" /\ r.pc = "select"
     /\ \E user \in (IF ok /\ IsSome(r.body.username) /\ LoginMatches(Get(r.body.username)) # {}
                     THEN {Some(u) : u \in LoginMatches(Get(r.body.username))}
                     ELSE {None}) :
          Step(s,
            IF ~ok
            THEN Respond([r EXCEPT !.err = TRUE],
                         Render("login", IF impl = "server" THEN "Terjadi kesalahan!"
                                         ELSE "Terjadi kesalahan server", "null", <<>>))
            ELSE IF ~IsSome(user) THEN Respond(r, Render("login", LoginFailed, "null", <<>>))
            ELSE IF ~IsSome(r.body.password)
            THEN Respond(r, Render("login", "Terjadi kesalahan server", "null", <<>>))
            ELSE [r EXCEPT !.pc = "compare", !.loc = Get(user)])
     /\ UNCHANGED <<impl, now, users, nextUserId, anime, nextAnimeId, resets, nextResetId,
                    files, sessions>>

\* A login that binds every session to the first user.
LoginUserIdFirst(user) == 1

\* The user id a successful login binds to the session.
LoginUserId(user) == user.id

\* bcrypt.compare returns; on a match the session gets the user's id and is
\* saved with the response.
LoginCompare(s) ==
  LET r == reqs[s]
      validPassword == Compare(Get(r.body.password), r.loc.password)
  IN /\ r.kind = "login" /\ r.pc = "compare"
     /\ sessions' = IF validPassword THEN [sessions EXCEPT ![r.b] = LoginUserId(r.loc)]
                    ELSE sessions
     /\ Step(s,
          IF validPassword THEN Respond(r, Redirect("/dashboard"))
          ELSE Respond(r, Render("login", LoginFailed, "null", <<>>)))
     /\ UNCHANGED <<impl, now, users, nextUserId, anime, nextAnimeId, resets, nextResetId,
                    files>>

\* ---------------------------------------------------------- GET /logout

\* The session store's entry after req.session.destroy().
Destroyed == 0

\* A logout that takes a session without a user for an error.
LogoutStrict(s, b) ==
  /\ Free(s)
  /\ sessions' = [sessions EXCEPT ![b] = Destroyed]
  /\ Step(s, Respond(NewReq("logout", "done", b, 0, <<>>, None),
                     IF sessions[b] = 0 THEN Status500("no session") ELSE Redirect("/login")))
  /\ UNCHANGED <<impl, now, users, nextUserId, anime, nextAnimeId, resets, nextResetId,
                 files>>

\* req.session.destroy(); res.redirect('/login')
Logout(s, b) ==
  /\ Free(s)
  /\ sessions' = [sessions EXCEPT ![b] = Destroyed]
  /\ Step(s, Respond(NewReq("logout", "done", b, 0, <<>>, None),
                                         Redirect("/login")))
  /\ UNCHANGED <<impl, now, users, nextUserId, anime, nextAnimeId, resets, nextResetId,
                 files>>

\* ------------------------------------------------ POST /forgot-password
\* (the reset routes exist in server.js only)

ForgotNoUser ==
  "Jika email terdaftar, link reset password telah dikirim ke email Anda. Silakan periksa inbox Anda."
ForgotSent ==
  "Link reset password telah dikirim ke email Anda. Periksa console untuk melihat link (demo mode)."

ResetsInFlight ==
  Cardinality({s \in Slots : reqs[s].kind = "forgot" /\ reqs[s].pc # "done"})

ForgotStart(s, b, body) ==
  /\ impl = "server"
  /\ Free(s)
  /\ nextResetId + ResetsInFlight <= MaxResets
  /\ Step(s,
       IF ~Truthy(body.email)
       THEN Respond(NewReq("forgot", "done", b, 0, body, None),
                    Render("forgot-password", "Email harus diisi!", "null", <<>>))
       ELSE NewReq("forgot", "select", b, 0, body, None))
  /\ UNCHANGED <<impl, now, users, nextUserId, anime, nextAnimeId, resets, nextResetId,
                 files, sessions>>

\* new Date(Date.now() + 3600000)
ExpiresAt == now + ResetTTL

\* What the caller is told when the email is no user's.
ForgotUnknownEmail == Render("forgot-password", "null", ForgotNoUser, <<>>)

\* SELECT * FROM users WHERE email = ? and its callback: for a user, a token
\* is drawn, its expiry computed and the INSERT issued.
ForgotSelect(s, ok, token) ==
  LET r == reqs[s]
      user == IF ok THEN UserByEmail(Get(r.body.email)) ELSE None
  IN /\ r.kind = "forgot" /\ r.pc = "select"
     /\ Step(s,
          IF ~ok THEN Respond([r EXCEPT !.err = TRUE],
                              Render("forgot-password", "Terjadi kesalahan!", "null", <<>>))
          ELSE IF ~IsSome(user) THEN Respond(r, ForgotUnknownEmail)
          ELSE [r EXCEPT !.pc = "insert", !.loc = [token |-> token, expires_at |-> ExpiresAt]])
     /\ UNCHANGED <<impl, now, users, nextUserId, anime, nextAnimeId, resets, nextResetId,
                    files, sessions>>

\* INSERT INTO password_resets (email, token, expires_at) and its callback;
\* token is UNIQUE.
ForgotInsert(s, ok) ==
  LET r == reqs[s]
      good == ok /\ \A t \in resets : t.token # r.loc.token
      row == [id |-> nextResetId, email |-> Get(r.body.email), token |-> r.loc.token,
              expires_at |-> r.loc.expires_at, used |-> 0]
  IN /\ r.kind = "forgot" /\ r.pc = "insert"
     /\ resets' = IF good THEN resets \cup {row} ELSE resets
     /\ nextResetId' = IF good THEN nextResetId + 1 ELSE nextResetId
     /\ Step(s,
          IF good THEN Respond(r, Render("forgot-password", "null", ForgotSent, <<>>))
          ELSE Respond([r EXCEPT !.err = TRUE],
                       Render("forgot-password", "Terjadi kesalahan!", "null", <<>>)))
     /\ UNCHANGED <<impl, now, users, nextUserId, anime, nextAnimeId, files, sessions>>

\* ------------------------------------------------------ reset tokens

\* datetime(x): the instant x to the second.
Datetime(ms) == ms \div MsPerSec

\* The comparison of the token's expiry with the clock:
\* datetime(expires_at) > datetime("now")
NotExpired(t) == Datetime(t.expires_at) > Datetime(now)

\* SELECT * FROM password_resets WHERE token = ? AND used = 0
\*   AND datetime(expires_at) > datetime("now")
ValidToken(token) ==
  IF \E t \in resets : t.token = token /\ t.used = 0 /\ NotExpired(t)
  THEN Some(CHOOSE t \in resets : t.token = token /\ t.used = 0 /\ NotExpired(t))
  ELSE None

InvalidLink == "Link reset password tidak valid atau sudah kadaluarsa!"

\* GET /reset-password/:token : the SELECT and its callback.
ResetPage(s, b, token, ok) ==
  LET row == IF ok THEN ValidToken(token) ELSE None
      r == [NewReq("resetPage", "done", b, token, <<>>, None) EXCEPT !.err = ~ok]
  IN /\ impl = "server"
     /\ Free(s)
     /\ Step(s,
          IF ~IsSome(row) THEN Respond(r, Render("reset-password", InvalidLink, "null", <<>>))
          ELSE Respond(r, Render("reset-password", "null", "null", <<token>>)))
     /\ UNCHANGED <<impl, now, users, nextUserId, anime, nextAnimeId, resets, nextResetId,
                    files, sessions>>

\* The checks of POST /reset-password before the store is asked.
ResetInputError(body) ==
  IF ~IsSome(body.token) \/ ~Truthy(body.password) \/ ~Truthy(body.confirmPassword)
  THEN "Semua field harus diisi!"
  ELSE IF body.password # body.confirmPassword
  THEN "Password dan konfirmasi password tidak cocok!"
  ELSE validatePassword(body.password)

ResetStart(s, b, body) ==
  /\ impl = "server"
  /\ Free(s)
  /\ Step(s,
       IF ResetInputError(body) # "ok"
       THEN Respond(NewReq("reset", "done", b, 0, body, None),
                    Render("reset-password", ResetInputError(body), "null", body.token))
       ELSE NewReq("reset", "select", b, 0, body, None))
  /\ UNCHANGED <<impl, now, users, nextUserId, anime, nextAnimeId, resets, nextResetId,
                 files, sessions>>

\* The token's SELECT and its callback, which hashes the new password and
\* issues the UPDATE of the user.
ResetSelect(s, ok, salt) ==
  LET r == reqs[s]
      resetToken == IF ok THEN ValidToken(Get(r.body.token)) ELSE None
  IN /\ r.kind = "reset" /\ r.pc = "select"
     /\ Step(s,
          IF ~IsSome(resetToken)
          THEN Respond([r EXCEPT !.err = ~ok],
                       Render("reset-password", InvalidLink, "null", <<>>))
          ELSE [r EXCEPT !.pc = "update",
                         !.loc = [email |-> Get(resetToken).email,
                                  hash |-> Hash(Get(r.body.password), salt)]])
     /\ UNCHANGED <<impl, now, users, nextUserId, anime, nextAnimeId, resets, nextResetId,
                    files, sessions>>

ResetDone == "/login?success=Password berhasil direset! Silakan login dengan password baru."

\* UPDATE users SET password = ? WHERE email = ? and its callback, which
\* issues the UPDATE that marks the token and answers without waiting for it.
ResetUpdate(s, ok) ==
  LET r == reqs[s]
  IN /\ r.kind = "reset" /\ r.pc = "update"
     /\ users' = IF ok
                 THEN {IF u.email = Some(r.loc.email) THEN [u EXCEPT !.password = r.loc.hash] ELSE u
                         : u \in users}
                 ELSE users
     /\ Step(s,
          IF ok THEN [r EXCEPT !.pc = "mark", !.resp = Some(Redirect(ResetDone))]
          ELSE Respond([r EXCEPT !.err = TRUE],
                       Render("reset-password", "Terjadi kesalahan saat mereset password!",
                              "null", r.body.token)))
     /\ UNCHANGED <<impl, now, nextUserId, anime, nextAnimeId, resets, nextResetId,
                    files, sessions>>

\* A marking UPDATE without its WHERE clause.
MarkUsedAll(token) == {[t EXCEPT !.used = 1] : t \in resets}

\* A marking UPDATE that goes by the token's email.
MarkUsedOfEmail(token) ==
  {IF \E x \in resets : x.token = token /\ x.email = t.email THEN [t EXCEPT !.used = 1] ELSE t
     : t \in resets}

\* The rows of password_resets after UPDATE password_resets SET used = 1
\* WHERE token = ?
MarkUsed(token) == {IF t.token = token THEN [t EXCEPT !.used = 1] ELSE t : t \in resets}

\* The marking UPDATE and its callback, which only logs an error.
ResetMark(s, ok) ==
  LET r == reqs[s]
  IN /\ r.kind = "reset" /\ r.pc = "mark"
     /\ resets' = IF ok THEN MarkUsed(Get(r.body.token)) ELSE resets
     /\ Step(s, [r EXCEPT !.pc = "done", !.err = ~ok])
     /\ UNCHANGED <<impl, now, users, nextUserId, anime, nextAnimeId, nextResetId,
                    files, sessions>>


\* ---------------------------------------------------------------- inputs

\* Store statements succeed or fail (SQLITE_BUSY, an I/O error); file
\* removals likewise.
Outcomes == BOOLEAN

Alice == <<"a", "l", "i", "c", "e">>
Bob == <<"b", "o", "b">>
AliceMail == <<"a", "@", "x", ".", "c">>
BobMail == <<"b", "@", "x", ".", "c">>
Password1 == <<"P", "a", "s", "s", "w", "o", "r", "d", "1">>
Secret22 == <<"S", "e", "c", "r", "e", "t", "2", "2">>

\* Two registered users, as two successful registrations leave them.
TwoUsers ==
  {[id |-> 1, username |-> Alice, email |-> IF impl = "server" THEN Some(AliceMail) ELSE None,
    password |-> Hash(Password1, 1), newsletter |-> 0],
   [id |-> 2, username |-> Bob, email |-> IF impl = "server" THEN Some(BobMail) ELSE None,
    password |-> Hash(Secret22, 1), newsletter |-> 0]}

\* ------------------------------------------------- the entries, two users

AddBody == [title |-> Some(<<"a">>), rating |-> Some(<<"9">>), episodes |-> None, genre |-> None]
UpdateBody ==
  [title |-> Some(<<"b">>), rating |-> Some(<<"1", "0">>), episodes |-> Some(<<"1", "2">>),
   genre |-> None]
Cover == Some([base |-> "cover", ext |-> ".png", mime |-> "image/png", big |-> FALSE])
EntryFiles == {None, Cover}
EntryIds == 1..MaxAnime

\* Both users are logged in, each in a browser of their own.
InitEntry ==
  /\ impl \in {"server", "part"}
  /\ now = 0
  /\ users = TwoUsers
  /\ nextUserId = 3
  /\ anime = {}
  /\ nextAnimeId = 1
  /\ resets = {}
  /\ nextResetId = 1
  /\ files = <<>>
  /\ sessions = [b \in Browsers |-> IF b = "b1" THEN 1 ELSE 2]
  /\ reqs = [s \in Slots |-> NoReq]
  /\ last = None

\* Adding, updating and deleting entries, from both browsers at once: the
\* requests of a slot come from one browser.
BrowserOf(s) == IF s % 2 = 1 THEN "b1" ELSE "b2"

NextMutate ==
  \/ \E s \in Slots, file \in EntryFiles : AddStart(s, BrowserOf(s), AddBody, file)
  \/ \E s \in Slots, rand \in Rands : AddUpload(s, rand)
  \/ \E s \in Slots, ok \in Outcomes : AddInsert(s, ok)
  \/ \E s \in Slots, id \in EntryIds, file \in EntryFiles :
       UpdateStart(s, BrowserOf(s), id, UpdateBody, file)
  \/ \E s \in Slots, rand \in Rands : UpdateUpload(s, rand)
  \/ \E s \in Slots, ok \in Outcomes : UpdateSelect(s, ok)
  \/ \E s \in Slots, ok \in Outcomes : UpdateWrite(s, ok)
  \/ \E s \in Slots, id \in EntryIds : DeleteStart(s, BrowserOf(s), id)
  \/ \E s \in Slots, ok \in Outcomes : DeleteSelect(s, ok)
  \/ \E s \in Slots, ok \in Outcomes : DeleteWrite(s, ok)
  \/ \E s \in Slots, ok \in Outcomes : Unlink(s, ok)
  \/ \E s \in Slots, ok \in Outcomes : AwaitUnlink(s, ok)

SpecMutate == InitEntry /\ [][NextMutate]_vars



\* The edit page beside the requests that make and remove entries (no
\* uploads here: the page does not read the files; no updates: they leave
\* an entry's id and owner, which the page's SELECT goes by, as they are).
NextEdit ==
  \/ \E s \in Slots : AddStart(s, BrowserOf(s), AddBody, None)
  \/ \E s \in Slots, rand \in Rands : AddUpload(s, rand)
  \/ \E s \in Slots, ok \in Outcomes : AddInsert(s, ok)
  \/ \E s \in Slots, id \in EntryIds : EditStart(s, BrowserOf(s), id)
  \/ \E s \in Slots, ok \in Outcomes : EditSelect(s, ok)
  \/ \E s \in Slots, id \in EntryIds : DeleteStart(s, BrowserOf(s), id)
  \/ \E s \in Slots, ok \in Outcomes : DeleteSelect(s, ok)
  \/ \E s \in Slots, ok \in Outcomes : DeleteWrite(s, ok)

SpecEdit == InitEntry /\ [][NextEdit]_vars

\* ------------------------------------------------------- registration

On == <<"o">>
RegBody(name, mail, pass) ==
  [username |-> Some(name), email |-> Some(mail), password |-> Some(pass),
   confirmPassword |-> Some(pass), terms |-> Some(On), newsletter |-> None]

\* Names with an escaped character and with blanks around them: server.js
\* refuses them, part_000 stores them escaped and trimmed.
AmpName == <<"a", "&", "b">>
PaddedBob == <<" ", "b", "o", "b">>

RegisterBodies ==
  {RegBody(Alice, AliceMail, Password1), RegBody(Alice, BobMail, Password1),
   RegBody(Bob, AliceMail, Password1), RegBody(Bob, BobMail, Password1),
   RegBody(PaddedBob, BobMail, Password1), RegBody(AmpName, BobMail, Password1),
   [RegBody(Alice, AliceMail, Secret22) EXCEPT !.newsletter = Some(On)],
   [RegBody(Bob, BobMail, Password1) EXCEPT !.terms = None, !.password = Some(<<"p">>)]}

NextRegister ==
  \/ \E s \in Slots, body \in RegisterBodies, salt \in Salts :
       RegisterStart(s, BrowserOf(s), body, salt)
  \/ \E s \in Slots, ok \in Outcomes : RegisterCheckUser(s, ok)
  \/ \E s \in Slots, ok \in Outcomes, salt \in Salts : RegisterCheckEmail(s, ok, salt)
  \/ \E s \in Slots, ok \in Outcomes : RegisterInsert(s, ok)

SpecRegister == Init /\ [][NextRegister]_vars

\* Registrations one after the other: the next one starts when the one before
\* has been answered.
NextRegisterSeq ==
  \/ \E body \in RegisterBodies, salt \in Salts : RegisterStart(1, "b1", body, salt)
  \/ \E ok \in Outcomes : RegisterCheckUser(1, ok)
  \/ \E ok \in Outcomes, salt \in Salts : RegisterCheckEmail(1, ok, salt)
  \/ \E ok \in Outcomes : RegisterInsert(1, ok)

SpecRegisterSeq == Init /\ [][NextRegisterSeq]_vars

\* ------------------------------------------------------ password reset

Tokens == 1..MaxResets
UnknownMail == <<"c", "@", "x", ".", "c">>
ForgotBodies == {[email |-> Some(AliceMail)], [email |-> Some(UnknownMail)], [email |-> None]}
ResetBody(token, pass, confirm) ==
  [token |-> Some(token), password |-> Some(pass), confirmPassword |-> Some(confirm)]
ResetBodies ==
  {ResetBody(t, Secret22, Secret22) : t \in Tokens} \cup {ResetBody(1, Secret22, Password1)}

\* The instants the clock is looked at: a token issued at 0 or at 400 ms
\* expires at 3600000 or at 3600400 ms.
ResetTimes == {0, 400, ResetTTL - 600, ResetTTL, ResetTTL + 400, ResetTTL + 1000}

\* server.js with its two users registered and nobody logged in.
InitReset ==
  /\ impl = "server"
  /\ now = 0
  /\ users = TwoUsers
  /\ nextUserId = 3
  /\ anime = {}
  /\ nextAnimeId = 1
  /\ resets = {}
  /\ nextResetId = 1
  /\ files = <<>>
  /\ sessions = [b \in Browsers |-> 0]
  /\ reqs = [s \in Slots |-> NoReq]
  /\ last = None

NextReset ==
  \/ \E s \in Slots, body \in ForgotBodies : ForgotStart(s, BrowserOf(s), body)
  \/ \E s \in Slots, ok \in Outcomes, token \in Tokens : ForgotSelect(s, ok, token)
  \/ \E s \in Slots, ok \in Outcomes : ForgotInsert(s, ok)
  \/ \E s \in Slots, token \in Tokens, ok \in Outcomes : ResetPage(s, BrowserOf(s), token, ok)
  \/ \E s \in Slots, body \in ResetBodies : ResetStart(s, BrowserOf(s), body)
  \/ \E s \in Slots, ok \in Outcomes, salt \in Salts : ResetSelect(s, ok, salt)
  \/ \E s \in Slots, ok \in Outcomes : ResetUpdate(s, ok)
  \/ \E s \in Slots, ok \in Outcomes : ResetMark(s, ok)
  \/ Tick(ResetTimes)

SpecReset == InitReset /\ [][NextReset]_vars

\* Registrations, any number at once, and password resets, one request at a
\* time, from an empty table.  The tokens drawn are fresh, and the hashes
\* take the first salt.
AccountBodies ==
  {RegBody(Alice, AliceMail, Password1), RegBody(Alice, BobMail, Password1),
   RegBody(Bob, AliceMail, Password1)}

NextAccounts ==
  \/ \E s \in Slots, body \in AccountBodies : RegisterStart(s, BrowserOf(s), body, 1)
  \/ \E s \in Slots, ok \in Outcomes : RegisterCheckUser(s, ok)
  \/ \E s \in Slots, ok \in Outcomes : RegisterCheckEmail(s, ok, 1)
  \/ \E s \in Slots, ok \in Outcomes : RegisterInsert(s, ok)
  \/ ForgotStart(1, "b1", [email |-> Some(AliceMail)])
  \/ \E ok \in Outcomes : ForgotSelect(1, ok, nextResetId)
  \/ \E ok \in Outcomes : ForgotInsert(1, ok)
  \/ \E token \in Tokens : ResetStart(1, "b1", ResetBody(token, Secret22, Secret22))
  \/ \E ok \in Outcomes : ResetSelect(1, ok, 1)
  \/ \E ok \in Outcomes : ResetUpdate(1, ok)
  \/ \E ok \in Outcomes : ResetMark(1, ok)

SpecAccounts == Init /\ [][NextAccounts]_vars

\* ------------------------------------------------------------- sessions

LoginBody(name, pass) == [username |-> Some(name), password |-> Some(pass)]
LoginBodies ==
  {LoginBody(Alice, Password1), LoginBody(AliceMail, Password1), LoginBody(Bob, Secret22),
   LoginBody(Alice, Secret22)}

\* The row a successful add of AddBody without a file leaves.
EntryRow(id, uid) ==
  [id |-> id, user_id |-> uid, title |-> AddValues(AddBody).title,
   rating |-> AddValues(AddBody).rating, episodes |-> AddValues(AddBody).episodes,
   genre |-> AddValues(AddBody).genre, image_path |-> None, created_at |-> 0]

\* The two users registered, each with an entry, and nobody logged in.
InitSession ==
  /\ impl \in {"server", "part"}
  /\ now = 0
  /\ users = TwoUsers
  /\ nextUserId = 3
  /\ anime = {EntryRow(1, 1), EntryRow(2, 2)}
  /\ nextAnimeId = 3
  /\ resets = {}
  /\ nextResetId = 1
  /\ files = <<>>
  /\ sessions = [b \in Browsers |-> 0]
  /\ reqs = [s \in Slots |-> NoReq]
  /\ last = None

\* A slot's logins come from one browser; logouts and dashboard requests come
\* from either browser in any slot.
NextSession ==
  \/ \E s \in Slots, body \in LoginBodies : LoginStart(s, BrowserOf(s), body)
  \/ \E s \in Slots, ok \in Outcomes : LoginSelect(s, ok)
  \/ \E s \in Slots : LoginCompare(s)
  \/ \E s \in Slots, b \in Browsers : Logout(s, b)
  \/ \E s \in Slots, b \in Browsers : DashboardStart(s, b)
  \/ \E s \in Slots, ok \in Outcomes : DashboardSelect(s, ok)

SpecSession == InitSession /\ [][NextSession]_vars

\* ------------------------------------------- the gate of the entry routes

\* The first user is logged in in browser b1; browser b2 has no session.
InitGate ==
  /\ impl \in {"server", "part"}
  /\ now = 0
  /\ users = TwoUsers
  /\ nextUserId = 3
  /\ anime = {}
  /\ nextAnimeId = 1
  /\ resets = {}
  /\ nextResetId = 1
  /\ files = <<>>
  /\ sessions = [b \in Browsers |-> IF b = "b1" THEN 1 ELSE 0]
  /\ reqs = [s \in Slots |-> NoReq]
  /\ last = None

\* The five entry routes asked without a session, from b2 and, once it has
\* logged out, from b1; beside them b1's own adds and deletes, which make and
\* remove the entries and files.  The requests the gate lets through run in
\* slot 1 one after the other; a request the gate turns away holds no slot, so
\* it may arrive at any slot, also while another request is in flight.
NextGate ==
  \/ \E s \in Slots, b \in Browsers, file \in EntryFiles :
       (s = 1 \/ ~isAuthenticated(b)) /\ AddStart(s, b, AddBody, file)
  \/ \E rand \in Rands : AddUpload(1, rand)
  \/ \E ok \in Outcomes : AddInsert(1, ok)
  \/ \E s \in Slots, b \in Browsers, id \in EntryIds :
       ~isAuthenticated(b) /\ EditStart(s, b, id)
  \/ \E s \in Slots, b \in Browsers : ~isAuthenticated(b) /\ DashboardStart(s, b)
  \/ \E s \in Slots, b \in Browsers, id \in EntryIds :
       ~isAuthenticated(b) /\ UpdateStart(s, b, id, UpdateBody, Cover)
  \/ \E s \in Slots, b \in Browsers, id \in EntryIds :
       (s = 1 \/ ~isAuthenticated(b)) /\ DeleteStart(s, b, id)
  \/ \E ok \in Outcomes : DeleteSelect(1, ok)
  \/ \E ok \in Outcomes : DeleteWrite(1, ok)
  \/ \E ok \in Outcomes : Unlink(1, ok)
  \/ \E ok \in Outcomes : AwaitUnlink(1, ok)
  \/ \E s \in Slots : Logout(s, "b1")

SpecGate == InitGate /\ [][NextGate]_vars


\* ------------------------------------------------- the fields of an entry

\* A form with a title and a rating, either of which may be missing.
FieldBody(title, rating) == [title |-> title, rating |-> rating, episodes |-> None, genre |-> None]

\* Ratings at and around the bounds, and the fields missing, empty, blank
\* or not a number.
FieldBodies ==
  {FieldBody(Some(<<"a">>), Some(r)) : r \in {<<"0">>, <<"1">>, <<"1", "0">>, <<"1", "1">>}}
    \cup {FieldBody(Some(<<" ">>), Some(<<"5">>)), FieldBody(Some(<<>>), Some(<<"5">>)),
          FieldBody(None, Some(<<"5">>)), FieldBody(Some(<<"b">>), None),
          FieldBody(Some(<<"b">>), Some(<<>>)), FieldBody(Some(<<"b">>), Some(<<"x">>))}

\* Adds of both users, one request after the other, with and without an image.
NextRate ==
  \/ \E b \in Browsers, body \in FieldBodies, file \in EntryFiles : AddStart(1, b, body, file)
  \/ \E rand \in Rands : AddUpload(1, rand)
  \/ \E ok \in Outcomes : AddInsert(1, ok)

SpecRate == InitEntry /\ [][NextRate]_vars

\* Adds and updates of both users, one request after the other, no images.
NextFields ==
  \/ \E b \in Browsers, body \in FieldBodies : AddStart(1, b, body, None)
  \/ \E rand \in Rands : AddUpload(1, rand)
  \/ \E ok \in Outcomes : AddInsert(1, ok)
  \/ \E b \in Browsers, id \in EntryIds, body \in FieldBodies : UpdateStart(1, b, id, body, None)
  \/ \E rand \in Rands : UpdateUpload(1, rand)
  \/ \E ok \in Outcomes : UpdateSelect(1, ok)
  \/ \E ok \in Outcomes : UpdateWrite(1, ok)

SpecFields == InitEntry /\ [][NextFields]_vars

\* ------------------------------------------------------ deleting entries

\* Both users are logged in.  The first has an entry with an image, stored
\* in uploads/ under the name multer gave it, and the second has an entry
\* without one.
InitDelete ==
  /\ impl \in {"server", "part"}
  /\ now = 0
  /\ users = TwoUsers
  /\ nextUserId = 3
  /\ anime = {[EntryRow(1, 1) EXCEPT !.image_path = Some(StoredName(Get(Cover), 1))],
              EntryRow(2, 2)}
  /\ nextAnimeId = 3
  /\ resets = {}
  /\ nextResetId = 1
  /\ files = (StoredName(Get(Cover), 1) :> 1)
  /\ sessions = [b \in Browsers |-> IF b = "b1" THEN 1 ELSE 2]
  /\ reqs = [s \in Slots |-> NoReq]
  /\ last = None

\* Deletes of either user, any number at once, for ids that name an entry of
\* the user, an entry of the other user, or no entry.
NextDelete ==
  \/ \E s \in Slots, b \in Browsers, id \in EntryIds \cup {nextAnimeId} : DeleteStart(s, b, id)
  \/ \E s \in Slots, ok \in Outcomes : DeleteSelect(s, ok)
  \/ \E s \in Slots, ok \in Outcomes : DeleteWrite(s, ok)
  \/ \E s \in Slots, ok \in Outcomes : Unlink(s, ok)
  \/ \E s \in Slots, ok \in Outcomes : AwaitUnlink(s, ok)

SpecDelete == InitDelete /\ [][NextDelete]_vars

\* ------------------------------------------------------ the dashboard

\* Adds and deletes of both users, one request after the other, while the
\* clock moves, and dashboard requests of both users beside them.
NextList ==
  \/ \E b \in Browsers : AddStart(1, b, AddBody, None)
  \/ \E rand \in Rands : AddUpload(1, rand)
  \/ \E ok \in Outcomes : AddInsert(1, ok)
  \/ \E b \in Browsers, id \in EntryIds : DeleteStart(1, b, id)
  \/ \E ok \in Outcomes : DeleteSelect(1, ok)
  \/ \E ok \in Outcomes : DeleteWrite(1, ok)
  \/ \E s \in Slots \ {1}, b \in Browsers : DashboardStart(s, b)
  \/ \E s \in Slots \ {1}, ok \in Outcomes : DashboardSelect(s, ok)
  \/ Tick(ResetTimes)

SpecList == InitEntry /\ [][NextList]_vars

\* ------------------------------------------------------ failing logins

\* Logins with a right pair, with a wrong password, with an identifier that is
\* nobody's, and without a password field.
LoginTries ==
  LoginBodies
    \cup {LoginBody(UnknownMail, Password1),
          [username |-> Some(Alice), password |-> None],
          [username |-> Some(UnknownMail), password |-> None],
          [username |-> Some(Alice), password |-> Some(<<>>)]}

NextLogin ==
  \/ \E s \in Slots, body \in LoginTries : LoginStart(s, BrowserOf(s), body)
  \/ \E s \in Slots, ok \in Outcomes : LoginSelect(s, ok)
  \/ \E s \in Slots : LoginCompare(s)

SpecLogin == InitSession /\ [][NextLogin]_vars

\* ------------------------------------------- consuming reset tokens

\* A password no user has had.
Fresh99 == <<"F", "r", "e", "s", "h", "p", "w", "9">>

\* Resets for every token with a good new password, and resets the input
\* checks refuse: a confirmation that differs, a weak password, no token.
ConsumeBodies ==
  {ResetBody(t, Fresh99, Fresh99) : t \in Tokens}
    \cup {ResetBody(1, Fresh99, Secret22),
          ResetBody(1, <<"w", "e", "a", "k">>, <<"w", "e", "a", "k">>),
          [ResetBody(1, Fresh99, Fresh99) EXCEPT !.token = None]}

\* The instant, past the expiry of the tokens issued at the start, to which
\* the clock moves.
LaterTimes == {ResetTTL + MsPerSec}

\* Registrations, logins, forgot-password requests and resets, one request
\* after the other, while the clock moves once.  The tokens drawn are fresh.
NextConsume ==
  \/ \E body \in {RegBody(Alice, AliceMail, Password1), RegBody(Bob, BobMail, Secret22),
                  RegBody(Alice, BobMail, Secret22)} :
       RegisterStart(1, "b1", body, 1)
  \/ \E ok \in Outcomes : RegisterCheckUser(1, ok)
  \/ \E ok \in Outcomes : RegisterCheckEmail(1, ok, 1)
  \/ \E ok \in Outcomes : RegisterInsert(1, ok)
  \/ \E body \in {LoginBody(Alice, Password1), LoginBody(Alice, Fresh99)} :
       LoginStart(1, "b1", body)
  \/ \E ok \in Outcomes : LoginSelect(1, ok)
  \/ LoginCompare(1)
  \/ \E mail \in {AliceMail, BobMail} : ForgotStart(1, "b1", [email |-> Some(mail)])
  \/ \E ok \in Outcomes : ForgotSelect(1, ok, nextResetId)
  \/ \E ok \in Outcomes : ForgotInsert(1, ok)
  \/ \E body \in ConsumeBodies : ResetStart(1, "b1", body)
  \/ \E ok \in Outcomes, salt \in Salts : ResetSelect(1, ok, salt)
  \/ \E ok \in Outcomes : ResetUpdate(1, ok)
  \/ \E ok \in Outcomes : ResetMark(1, ok)
  \/ Tick(LaterTimes)

SpecConsume == Init /\ [][NextConsume]_vars

\* ------------------------------------------- releasing a stored image

\* A second image, whose stored name differs from the first's in both files.
Poster == Some([base |-> "poster", ext |-> ".jpg", mime |-> "image/jpeg", big |-> FALSE])

\* Updates, with and without a new image, and deletes of both users, one
\* request after the other, on the first user's entry with an image and the
\* second user's entry without one; removals and store statements may fail.
NextRelease ==
  \/ \E b \in Browsers, id \in EntryIds, file \in {None, Poster} :
       UpdateStart(1, b, id, UpdateBody, file)
  \/ \E rand \in Rands : UpdateUpload(1, rand)
  \/ \E ok \in Outcomes : UpdateSelect(1, ok)
  \/ \E ok \in Outcomes : UpdateWrite(1, ok)
  \/ \E b \in Browsers, id \in EntryIds : DeleteStart(1, b, id)
  \/ \E ok \in Outcomes : DeleteSelect(1, ok)
  \/ \E ok \in Outcomes : DeleteWrite(1, ok)
  \/ \E ok \in Outcomes : Unlink(1, ok)
  \/ \E ok \in Outcomes : AwaitUnlink(1, ok)

SpecRelease == InitDelete /\ [][NextRelease]_vars

\* ------------------------------------------------------ updating entries

\* The ids of the entries stored at the start.
StoredIds == {1, 2}

\* The two slots in which the requests below run.
Pair == {1, 2}

\* Updates of both users, two at once (the requests of a slot come from one
\* browser), with and without a new image, for the id of the user's own
\* entry or of the other user's; beside them, in the first slot, deletes of
\* either user.
NextFrame ==
  \/ \E s \in Pair, id \in StoredIds, file \in {None, Poster} :
       UpdateStart(s, BrowserOf(s), id, UpdateBody, file)
  \/ \E s \in Pair, rand \in Rands : UpdateUpload(s, rand)
  \/ \E s \in Pair, ok \in Outcomes : UpdateSelect(s, ok)
  \/ \E s \in Pair, ok \in Outcomes : UpdateWrite(s, ok)
  \/ \E b \in Browsers, id \in StoredIds : DeleteStart(1, b, id)
  \/ \E ok \in Outcomes : DeleteSelect(1, ok)
  \/ \E ok \in Outcomes : DeleteWrite(1, ok)
  \/ \E s \in Pair, ok \in Outcomes : Unlink(s, ok)
  \/ \E s \in Pair, ok \in Outcomes : AwaitUnlink(s, ok)

SpecFrame == InitDelete /\ [][NextFrame]_vars

\* ------------------------------------------------------ the whole program

\* Every request the program serves, from any browser, with the inputs above.
Next ==
  \/ NextEdit
  \/ NextMutate
  \/ NextRegister
  \/ NextAccounts
  \/ NextReset
  \/ NextSession
  \/ NextGate
  \/ NextRate
  \/ NextFields
  \/ NextDelete
  \/ NextList
  \/ NextLogin
  \/ NextConsume
  \/ NextRelease
  \/ NextFrame

Spec == Init /\ [][Next]_vars

\* =================================================================
\*                          the properties
\* =================================================================

\* The request the last step answered, when it is of the given route.
Answered(kind) == IsSome(last) /\ Get(last).kind = kind
Answer == Get(Get(last).resp)

\* ------------------------------------------------------------------ C1

\* What the edit page answers for an id that names no entry.
EditNotFound == Redirect("/dashboard")

\* C1: an edit page asked under B's session for the id of an entry that is
\* another user's is answered with the redirect to the dashboard, without the
\* entry, and so is one asked for an id that names no entry: the two answers
\* are the same.
C1_EditOfOthersIsNotFound ==
  Answered("edit") /\ Get(last).uid # 0 =>
    /\ (\E e \in anime : e.id = Get(last).id /\ e.user_id # Get(last).uid)
         => Answer = EditNotFound
    /\ (\A e \in anime : e.id # Get(last).id) => Answer = EditNotFound

\* B has asked for the edit page of an entry of A's, the store did not fail,
\* and B got the redirect.
C1_Witness ==
  /\ Answered("edit") /\ Get(last).uid = 2 /\ ~Get(last).err
  /\ \E e \in anime : e.id = Get(last).id /\ e.user_id = 1
  /\ Answer = EditNotFound

\* ------------------------------------------------------------------ C2

\* The request in slot s takes a step.
Steps(s) == reqs'[s] # reqs[s]

\* C2: a step of an update or delete request made under B's session with the
\* id of an entry of A's leaves the entry's row and its stored file as they
\* were.
C2_OthersRequestLeavesEntry ==
  [][\A s \in Slots : \A e \in anime :
       (/\ reqs[s].kind \in {"update", "delete"}
        /\ reqs[s].uid # e.user_id
        /\ reqs[s].id = e.id
        /\ Steps(s))
       => /\ e \in anime'
          /\ (IsSome(e.image_path) /\ Get(e.image_path) \in DOMAIN files)
               => /\ Get(e.image_path) \in DOMAIN files'
                  /\ files'[Get(e.image_path)] = files[Get(e.image_path)]]_vars

\* The half of C2 that holds: the rows of A's entries are not touched by a
\* step of B's update or delete request.
C2_OthersRequestLeavesRow ==
  [][\A s \in Slots : \A e \in anime :
       (reqs[s].kind \in {"update", "delete"} /\ reqs[s].uid # e.user_id /\ Steps(s))
       => e \in anime']_vars

\* ------------------------------------------------------------------ C3

\* The row of a token (token is UNIQUE).
HasToken(tok) == \E t \in resets : t.token = tok
TokenRow(tok) == CHOOSE t \in resets : t.token = tok

\* The reset page was answered with the form / with the invalid-link error.
PageAccepted == Answer.error = "null"
PageRejected == Answer.error = InvalidLink

\* The reset page, asked for a token in the table without a store error, is
\* given while the token is unused and the clock is before its expiry, and is
\* refused once the clock is past the expiry.
C3_PageFollowsExpiry ==
  (Answered("resetPage") /\ ~Get(last).err /\ HasToken(Get(last).id)) =>
    LET t == TokenRow(Get(last).id)
    IN /\ (t.used = 0 /\ now < t.expires_at) => PageAccepted
       /\ now > t.expires_at => PageRejected

\* A step of a token's life: the expiry is the hour after the issuing request
\* computed it; the used flag stays set; the consuming request's SELECT lets
\* the request on while the token is unused and unexpired and never after its
\* expiry; and a consumption that has finished leaves the token invalid.
C3_TokenStep ==
  /\ \A s \in Slots :
       (reqs[s].kind = "forgot" /\ reqs[s].pc = "select" /\ reqs'[s].pc = "insert")
         => reqs'[s].loc.expires_at = now + ResetTTL
  /\ \A t \in resets : t.used = 1 => \E u \in resets' : u.id = t.id /\ u.used = 1
  /\ \A s \in Slots :
       (/\ reqs[s].kind = "reset" /\ reqs[s].pc = "select" /\ Steps(s)
        /\ HasToken(Get(reqs[s].body.token)))
       => LET t == TokenRow(Get(reqs[s].body.token))
          IN /\ (t.used = 0 /\ now < t.expires_at)
                  => (reqs'[s].pc = "update" \/ Get(last').err)
             /\ now > t.expires_at => reqs'[s].pc # "update"
  /\ \A s \in Slots, tok \in Tokens :
       (/\ reqs[s].kind = "reset" /\ reqs[s].pc = "mark" /\ Steps(s)
        /\ tok = Get(reqs[s].body.token))
       => ValidToken(tok)' = None

\* C3: a token expires one hour after it was issued; it is accepted by the
\* reset page and by the reset itself at every instant before its expiry while
\* unused, is refused after one successful consumption and after its expiry,
\* and its used flag never goes back to unset.
C3_TokenLifetime == [](C3_PageFollowsExpiry) /\ [][C3_TokenStep]_vars

\* ------------------------------------------------------------------ C4

\* The reset in slot s has changed the password.
HasReset(s) == reqs[s].kind = "reset" /\ reqs[s].pc = "mark"

\* C4: of two resets that carry the same token at once, one changes the
\* password and the other is refused: never have both changed it.
C4_OneResetWins ==
  \A s1, s2 \in Slots :
    (s1 # s2 /\ HasReset(s1) /\ HasReset(s2)) => reqs[s1].body.token # reqs[s2].body.token

\* ------------------------------------------------------------------ C5

\* C5: when a reset has changed the password and its marking of the token
\* fails, the token still counts as consumed: it does not pass the validity
\* SELECT afterwards.
C5_FailedMarkStillConsumes ==
  [][\A s \in Slots, tok \in Tokens :
       (/\ reqs[s].kind = "reset" /\ reqs[s].pc = "mark" /\ Steps(s)
        /\ tok = Get(reqs[s].body.token)
        /\ \A t \in resets' : t.token = tok => t.used = 0)
       => ValidToken(tok)' = None]_vars

\* ------------------------------------------------------------------ C6

\* C6: a forgot-password request with an email, met by no store error, is
\* answered as the request for an email of no user is.
C6_ForgotAnswerIsGeneric ==
  (Answered("forgot") /\ Truthy(Get(last).body.email) /\ ~Get(last).err)
    => Answer = ForgotUnknownEmail

\* ------------------------------------------------------------------ C7

\* The username is some user's.
Registered(name) == \E u \in users : u.username = name

\* A store statement of the request in slot s has failed, now or before.
StoreFailed(s) == reqs[s].err \/ reqs'[s].err \/ (IsSome(last') /\ Get(last').err)

\* C7: a registration that has passed the input checks and asks the store
\* while its username is already some user's is answered with the duplicate
\* username error and leaves table users as it was (no row added, the
\* existing row unchanged), store failures apart.
C7_DuplicateUsernameRefused ==
  [][\A s \in Slots :
       (/\ reqs[s].kind = "register" /\ Steps(s)
        /\ Registered(RegisterUsername(reqs[s].body))
        /\ ~StoreFailed(s))
       => /\ users' = users
          /\ IsSome(last')
          /\ Get(Get(last').resp) = Render("register", DuplicateUsername, "null", <<>>)]_vars

\* A registration has been answered with the duplicate error, its username
\* being a user's.
C7_Witness ==
  /\ Answered("register") /\ ~Get(last).err
  /\ Answer.error = DuplicateUsername
  /\ Registered(RegisterUsername(Get(last).body))

\* ------------------------------------------------------------------ C8

\* The request's input passes the checks of its handler.
ValidRegistration(body) ==
  IF impl = "server" THEN RegisterInputError(body) = "ok"
  ELSE PartRegisterInputError(body) = "ok"

\* C8: of registrations with one username, one row comes to be, and a
\* registration that is refused while its username is a user's (its input
\* valid, its email nobody's, no store failure) is refused with the duplicate
\* username error.
C8_LoserGetsDuplicate ==
  /\ \A u1, u2 \in users : u1.username = u2.username => u1 = u2
  /\ (/\ Answered("register") /\ ~Get(last).err
      /\ ValidRegistration(Get(last).body)
      /\ Answer.type = "render"
      /\ Registered(RegisterUsername(Get(last).body))
      /\ \A u \in users : u.email = None \/ u.email # Get(last).body.email)
     => Answer.error = DuplicateUsername

\* ------------------------------------------------------------------ C9

\* C9: no two rows of table users have the same username, and no two have the
\* same email.
C9_UsersUnique ==
  \A u1, u2 \in users :
    u1 # u2 => /\ u1.username # u2.username
               /\ IsSome(u1.email) => u1.email # u2.email

\* A password has been reset, and a registration has been refused by the
\* INSERT itself.
C9_Witness ==
  /\ \E u \in users : \E salt \in Salts : u.password = Hash(Secret22, salt)
  /\ Answered("register") /\ ~Get(last).err
  /\ Answer.error = RegisterInsertError(TRUE)

\* ------------------------------------------------------------------ C10

\* The users a login's pair of identifier and password is right for.
PairUsers(body) ==
  {u \in users : /\ IsSome(body.username) /\ IsSome(body.password)
                 /\ (u.username = Get(body.username) \/ u.email = body.username)
                 /\ Compare(Get(body.password), u.password)}

\* A login with a right pair, met by no store failure, is let in and leaves
\* its browser's session bound to the user of the pair.
C10_LoginBinds ==
  (Answered("login") /\ ~Get(last).err /\ PairUsers(Get(last).body) # {}) =>
    /\ Answer = Redirect("/dashboard")
    /\ \E u \in PairUsers(Get(last).body) : sessions[Get(last).b] = u.id

\* A logout leaves its browser's session anonymous.
C10_LogoutUnbinds == Answered("logout") => sessions[Get(last).b] = 0

\* A dashboard request that came without a user is sent to the login page;
\* one that came with a user is served that user's entries.
C10_ServedAsUser ==
  (Answered("dashboard") /\ ~Get(last).err) =>
    IF Get(last).uid = 0 THEN Answer = Redirect("/login")
    ELSE \E list \in SelectAnimeOf(Get(last).uid) :
           Answer = Render("dashboard", "null", "null", <<list>>)

\* A dashboard request is made with the user its browser's session is bound
\* to at that moment: with none, it is answered at once with the redirect to
\* the login page.
C10_GateReadsSession ==
  \A s \in Slots, b \in Browsers :
    DashboardStart(s, b) =>
      IF sessions[b] = 0
      THEN IsSome(last') /\ Get(Get(last').resp) = Redirect("/login")
      ELSE reqs'[s].kind = "dashboard" /\ reqs'[s].uid = sessions[b]

\* C10: a login with a right pair of username-or-email and password binds the
\* browser's session to that user, the next gated request of the browser is
\* served as that user, and after a logout the session is anonymous and its
\* gated requests are sent to the login page.
C10_SessionLifecycle ==
  /\ [](C10_LoginBinds /\ C10_LogoutUnbinds /\ C10_ServedAsUser)
  /\ [][C10_GateReadsSession]_vars

\* The second user has logged in and has been served the dashboard with their
\* entry.
C10_Witness ==
  /\ Answered("dashboard") /\ Get(last).uid = 2 /\ sessions[Get(last).b] = 2
  /\ Answer = Render("dashboard", "null", "null", <<(<<EntryRow(2, 2)>>)>>)

\* ------------------------------------------------------------------ C11

\* The routes behind isAuthenticated that read or change entries.
Gated == {"dashboard", "add", "edit", "update", "delete"}

\* No request of an entry route is in flight without a user, and one that
\* came without a user has been answered with the redirect to the login page,
\* which carries no entry.
C11_TurnedAway ==
  /\ \A s \in Slots : reqs[s].kind \in Gated => reqs[s].uid # 0
  /\ (IsSome(last) /\ Get(last).kind \in Gated /\ Get(last).uid = 0)
       => Answer = Redirect("/login") /\ Answer.data = <<>>

\* The step that answers a request that came without a user leaves the rows
\* of table anime, its id counter and the stored files as they were.
C11_NothingChanges ==
  (IsSome(last') /\ Get(last').kind \in Gated /\ Get(last').uid = 0)
    => /\ anime' = anime
       /\ nextAnimeId' = nextAnimeId
       /\ files' = files
       /\ \A s \in Slots : reqs'[s].unlink = reqs[s].unlink

\* C11: a request to the dashboard, add, edit page, update or delete route
\* made without an authenticated session is answered with the redirect to the
\* login page and changes nothing: no entry is read out, created, modified or
\* deleted, and no file is stored or removed.
C11_AnonymousChangesNothing == [](C11_TurnedAway) /\ [][C11_NothingChanges]_vars

\* A delete request for an entry that has a stored image came without a user
\* and was sent to the login page.
C11_Witness ==
  /\ Answered("delete") /\ Get(last).uid = 0
  /\ Answer = Redirect("/login")
  /\ \E e \in anime : /\ e.id = Get(last).id
                      /\ IsSome(e.image_path)
                      /\ Get(e.image_path) \in DOMAIN files

\* ------------------------------------------------------------------ C12

\* The form's title is non-empty after trimming.
GoodTitle(body) == Truthy(body.title) /\ Trim(Get(body.title)) # <<>>

\* The answer of an add that has stored its entry.
AddSucceeded ==
  Redirect(IF impl = "server" THEN "/dashboard"
           ELSE "/dashboard?success=Anime berhasil ditambahkan!")

\* A step of an add whose title is good and whose rating is the numeral n.
\* For n just outside the bounds no step changes table anime and the answer
\* is not the success.  For n on a bound the step that answers, the store not
\* failing, answers with the success and has added one row, owned by the
\* request's user, with the rating as sent; every other step leaves the table
\* as it was.
C12_AddStep ==
  \A s \in Slots :
    (/\ reqs[s].kind = "add" /\ Steps(s)
     /\ GoodTitle(reqs[s].body)
     /\ IsSome(reqs[s].body.rating) /\ IsNumeral(Get(reqs[s].body.rating)))
    => LET n == NumeralVal(Get(reqs[s].body.rating))
       IN /\ (n = RatingMin - 1 \/ n = RatingMax + 1)
               => /\ anime' = anime
                  /\ IsSome(last') => Get(Get(last').resp) # AddSucceeded
          /\ (n = RatingMin \/ n = RatingMax)
               => IF IsSome(last') /\ ~Get(last').err
                  THEN /\ Get(Get(last').resp) = AddSucceeded
                       /\ \E a \in anime' \ anime :
                            /\ anime' = anime \cup {a}
                            /\ a.user_id = reqs[s].uid
                            /\ a.rating = SqlInt(n)
                  ELSE anime' = anime

\* C12: an add with a non-empty title and rating 0 or 11 fails and creates no
\* row; with rating 1 or 10 it succeeds and creates exactly one row, owned by
\* the session's user, with the rating as sent.
C12_RatingBounds == [][C12_AddStep]_vars

\* The second user's add with rating 10 has been answered with the success
\* and the row is there, while an entry with rating 1 is stored as well.
C12_Witness ==
  /\ Answered("add") /\ Get(last).uid = 2 /\ Answer = AddSucceeded
  /\ Get(last).body.rating = Some(<<"1", "0">>)
  /\ \E a \in anime : a.user_id = 2 /\ a.rating = SqlInt(RatingMax)
  /\ \E a \in anime : a.rating = SqlInt(RatingMin)

\* ------------------------------------------------------------------ C13

\* The stored entry has a title that is non-empty after trimming and an
\* integer rating within the bounds.
ValidEntry(a) ==
  /\ a.title[1] = "text" /\ Trim(a.title[2]) # <<>>
  /\ a.rating[1] = "int" /\ a.rating[2] >= RatingMin /\ a.rating[2] <= RatingMax

\* The form of an update lacks a rating, or has one that is no number within
\* the bounds, or has a title that is empty after trimming.
BadFields(body) ==
  \/ ~GoodTitle(body)
  \/ ~Truthy(body.rating)
  \/ ToNumber(body.rating) = NaN
  \/ JsLess(ToNumber(body.rating), RatingMin)
  \/ JsGreater(ToNumber(body.rating), RatingMax)

\* A step of an update with such a form leaves every entry's title and rating
\* as they were.
C13_BadUpdateStep ==
  \A s \in Slots :
    (reqs[s].kind = "update" /\ Steps(s) /\ BadFields(reqs[s].body))
    => \A a \in anime : \E c \in anime' :
         c.id = a.id /\ c.title = a.title /\ c.rating = a.rating

\* C13: after any adds and updates, every stored entry has a title that is
\* non-empty after trimming and an integer rating in [1,10]; an update with a
\* missing or out-of-range rating or an empty or blank title leaves the stored
\* title and rating unchanged.
C13_EntriesStayValid ==
  /\ [](\A a \in anime : ValidEntry(a))
  /\ [][C13_BadUpdateStep]_vars

\* ------------------------------------------------------------------ C14

\* The step of a delete request that receives its SELECT's result.  It changes
\* neither rows nor files.  For an id that is missing or another user's the
\* request ends there with no removal issued; for an entry of the request's
\* user the removal of the file its image reference names is issued, and none
\* when the entry has no image.
C14_SelectStep ==
  \A s \in Slots :
    (reqs[s].kind = "delete" /\ reqs[s].pc = "select" /\ Steps(s))
    => LET row == SelectAnime(reqs[s].id, reqs[s].uid)
       IN /\ anime' = anime /\ files' = files
          /\ ~IsSome(row) => (IsSome(last') /\ reqs'[s].unlink = None)
          /\ (IsSome(row) /\ ~StoreFailed(s))
               => (reqs'[s].unlink = Get(row).image_path /\ ~IsSome(last'))

\* The step that executes a removal: the rows stay, and unless the file system
\* fails the file is gone afterwards and the other files are as they were.
C14_UnlinkStep ==
  \A s \in Slots :
    (IsSome(reqs[s].unlink) /\ reqs'[s].unlink = None)
    => /\ anime' = anime
       /\ (~Unlink(s, FALSE) /\ ~AwaitUnlink(s, FALSE))
            => files' = RemoveFile(Get(reqs[s].unlink))

\* The step of the DELETE, which answers: the files stay; unless the store fails the row of
\* the request's id and user is gone and every other row is as it was.
C14_WriteStep ==
  \A s \in Slots :
    (reqs[s].kind = "delete" /\ reqs[s].pc = "write" /\ Steps(s) /\ IsSome(last'))
    => /\ files' = files
       /\ anime' = IF StoreFailed(s) THEN anime
                   ELSE {a \in anime : ~(a.id = reqs[s].id /\ a.user_id = reqs[s].uid)}

\* A file is removed only by a removal that a request has issued.
C14_OnlyIssuedRemovals ==
  \A n \in DOMAIN files :
    n \notin DOMAIN files' => \E s \in Slots : reqs[s].unlink = Some(n)

\* C14: a delete by the owner of an entry with an image removes the row and
\* the stored file of that name; of an owned entry without an image it removes
\* the row and touches no file; of an id that is missing or not owned it
\* removes no row and touches no file.
C14_DeleteRemovesRowAndAsset ==
  [][C14_SelectStep /\ C14_UnlinkStep /\ C14_WriteStep /\ C14_OnlyIssuedRemovals]_vars

\* The owner's delete of an entry with an image has had the file removed and
\* is about to have its row deleted.
C14_Witness ==
  \E s \in Slots : \E e \in anime :
    /\ reqs[s].kind = "delete" /\ reqs[s].pc = "write" /\ reqs[s].unlink = None
    /\ reqs[s].id = e.id /\ reqs[s].uid = e.user_id
    /\ IsSome(e.image_path) /\ Get(e.image_path) \notin DOMAIN files

\* ------------------------------------------------------------------ C15

\* The list a served dashboard carries.
Listed == Answer.data[1]

\* C15: the dashboard served to user U lists exactly the entries whose owner
\* is U, each once, in descending order of their creation time; so a user who
\* has added nothing is served the empty list whatever the others have added.
C15_ListIsOwnDescending ==
  (Answered("dashboard") /\ ~Get(last).err /\ Get(last).uid # 0) =>
    /\ Answer.type = "render"
    /\ {Listed[i] : i \in DOMAIN Listed} = {a \in anime : a.user_id = Get(last).uid}
    /\ Len(Listed) = Cardinality({a \in anime : a.user_id = Get(last).uid})
    /\ \A i, j \in DOMAIN Listed : i < j => Listed[i].created_at >= Listed[j].created_at

\* The first user has been served two entries, the later one first.
C15_Witness ==
  /\ Answered("dashboard") /\ Get(last).uid = 1 /\ Answer.type = "render"
  /\ Len(Listed) = 2
  /\ Listed[1].created_at > Listed[2].created_at

\* ------------------------------------------------------------------ C16

\* What a login with this form is answered when its identifier is no user's.
LoginRefusal(body) ==
  IF impl = "server" /\ (~Truthy(body.username) \/ ~Truthy(body.password))
  THEN Render("login", "Username dan password harus diisi!", "null", <<>>)
  ELSE Render("login", LoginFailed, "null", <<>>)

\* A login that was not let in, the store not failing, has been answered as
\* the same form is answered when its identifier is no user's.
C16_SameRefusal ==
  (Answered("login") /\ ~Get(last).err /\ Answer # Redirect("/dashboard"))
    => Answer = LoginRefusal(Get(last).body)

\* The step that refuses a login leaves every session as it was.
C16_SessionStays ==
  (IsSome(last') /\ Get(last').kind = "login" /\ Get(Get(last').resp) # Redirect("/dashboard"))
    => sessions' = sessions

\* C16: a login that fails is answered with the same generic error whether its
\* identifier matches no user or matches a user whose password it does not
\* carry, and the session stays anonymous.
C16_FailureIsGeneric == [](C16_SameRefusal) /\ [][C16_SessionStays]_vars

\* ------------------------------------------------------------------ C17

\* Every logout is answered with the redirect to the login page, without an
\* error, and leaves its browser's session without a user.
C17_LogoutAnswer ==
  Answered("logout") =>
    /\ Answer = Redirect("/login")
    /\ ~Get(last).err
    /\ sessions[Get(last).b] = 0

\* The step of a logout whose session had no user when it arrived (it had
\* been ended, or nobody had logged in) changes nothing.
C17_SecondLogoutStep ==
  (IsSome(last') /\ Get(last').kind = "logout" /\ Get(last').uid = 0)
    => UNCHANGED <<impl, now, users, nextUserId, anime, nextAnimeId, resets, nextResetId,
                   files, sessions, reqs>>

\* C17: a logout of a session that is already anonymous completes with the
\* usual redirect to the login page, raises no error and leaves the session
\* anonymous: a logout after a logout leaves the state the first one left.
C17_LogoutIdempotent == [](C17_LogoutAnswer) /\ [][C17_SecondLogoutStep]_vars

\* A browser whose session has no user has logged out, while the other
\* browser is logged in.
C17_Witness ==
  /\ Answered("logout") /\ Get(last).uid = 0
  /\ Answer = Redirect("/login")
  /\ sessions[Get(last).b] = 0
  /\ \E b \in Browsers : sessions[b] # 0

\* ------------------------------------------------------------------ C18

\* The step of a reset that writes the password finds the token of the
\* request in the table, unused and unexpired.
C18_WriteStep ==
  \A s \in Slots, tok \in Tokens :
    (/\ reqs[s].kind = "reset" /\ reqs[s].pc = "update" /\ Steps(s)
     /\ tok = Get(reqs[s].body.token)
     /\ users' # users)
    => ValidToken(tok) # None

\* C18: a password is written through the reset flow only if, at the moment
\* of the write, the presented token exists, is unused and is not expired.
C18_WriteNeedsValidToken == [][C18_WriteStep]_vars

\* ------------------------------------------------------------------ C19

\* The users after the password of the user with this email has been set.
WithPassword(mail, hash) ==
  {IF u.email = Some(mail) THEN [u EXCEPT !.password = hash] ELSE u : u \in users}

\* A step of a reset.  The SELECT's step writes nothing.  The step of the
\* UPDATE of users leaves the tokens and either fails, writing nothing, or
\* sets the password of the user whose email the token was issued for, and of
\* nobody else, to a hash of the new password.  The marking step leaves the
\* users and either fails or sets the used flag of the request's token and of
\* no other.
C19_ResetStep ==
  \A s \in Slots :
    (reqs[s].kind = "reset" /\ Steps(s))
    => /\ reqs[s].pc = "select" => (users' = users /\ resets' = resets)
       /\ reqs[s].pc = "update"
            => /\ resets' = resets
               /\ IF StoreFailed(s) THEN users' = users
                  ELSE /\ HasToken(Get(reqs[s].body.token))
                       /\ \E salt \in Salts :
                            users' = WithPassword(TokenRow(Get(reqs[s].body.token)).email,
                                                  Hash(Get(reqs[s].body.password), salt))
                       /\ Cardinality({u \in users : u \notin users'}) <= 1
       /\ reqs[s].pc = "mark"
            => /\ users' = users
               /\ \/ resets' = resets
                  \/ resets' = {IF t.token = Get(reqs[s].body.token)
                                THEN [t EXCEPT !.used = 1] ELSE t : t \in resets}

\* The step that refuses a reset writes neither a password nor a used flag.
C19_RejectedStep ==
  (IsSome(last') /\ Get(last').kind = "reset" /\ Get(Get(last').resp) # Redirect(ResetDone))
    => (users' = users /\ resets' = resets)

\* A user's row stays, and its password changes only in the step of a
\* reset's UPDATE.
C19_OnlyResetWrites ==
  \A u \in users :
    /\ \E v \in users' : v.id = u.id
    /\ u \notin users'
         => \E s \in Slots : reqs[s].kind = "reset" /\ reqs[s].pc = "update" /\ Steps(s)

\* C19: a reset that succeeds changes the password hash of exactly the user
\* whose email its token was issued for and marks only that token; a reset
\* that is refused changes no hash and no used flag; and nothing but a
\* successful reset changes a stored hash after the registration.
C19_ResetFrame == [][C19_ResetStep /\ C19_RejectedStep /\ C19_OnlyResetWrites]_vars

\* The first user's password has been reset with a token that is marked, the
\* second user's password is the one registered, and a token issued for the
\* second user is unused.
C19_Witness ==
  /\ \E u \in users : \E salt \in Salts :
       u.email = Some(AliceMail) /\ u.password = Hash(Fresh99, salt)
  /\ \E u \in users : u.email = Some(BobMail) /\ u.password = Hash(Secret22, 1)
  /\ \E t \in resets : t.email = AliceMail /\ t.used = 1
  /\ \E t \in resets : t.email = BobMail /\ t.used = 0

\* ------------------------------------------------------------------ C20

\* The step that stores a new token leaves every row of password_resets as
\* it was.
C20_IssueStep ==
  \A s \in Slots :
    (reqs[s].kind = "forgot" /\ Steps(s)) => \A t \in resets : t \in resets'

\* The step that marks a token leaves every other token's row as it was.
C20_ConsumeStep ==
  \A s \in Slots :
    (reqs[s].kind = "reset" /\ Steps(s))
    => \A t \in resets : t.token # Get(reqs[s].body.token) => t \in resets'

\* C20: issuing a new token for an email leaves the tokens issued before
\* unchanged, so that several tokens of one email are valid at once, and
\* consuming one of them leaves the others valid.
C20_EarlierTokensStay == [][C20_IssueStep /\ C20_ConsumeStep]_vars

\* Two tokens were issued for one email; one has been consumed and the other
\* still passes the validity SELECT.
C20_Witness ==
  \E t1, t2 \in resets :
    /\ t1.email = t2.email /\ t1.token # t2.token
    /\ t1.used = 1
    /\ ValidToken(t2.token) = Some(t2)

\* ------------------------------------------------------------------ C21

\* The step that executes a removal which leaves the files as they were (the
\* removal has failed, or the file was not there): it answers nothing, touches
\* no row, and the request goes on to its store statement.
C21_FailedReleaseStep ==
  \A s \in Slots :
    (IsSome(reqs[s].unlink) /\ reqs'[s].unlink = None /\ files' = files)
    => /\ anime' = anime
       /\ last' = None
       /\ reqs'[s].kind = reqs[s].kind
       /\ reqs'[s].pc = IF reqs[s].pc = "unlink" THEN "write" ELSE reqs[s].pc

\* The request in slot s is at its store statement, the entry it is about
\* has an image whose removal it has had executed, and the file is still there.
ReleaseFailed(s) ==
  LET row == SelectAnime(reqs[s].id, reqs[s].uid)
  IN /\ reqs[s].pc = "write" /\ reqs[s].unlink = None
     /\ IsSome(row) /\ IsSome(Get(row).image_path)
     /\ Get(Get(row).image_path) \in DOMAIN files
     /\ reqs[s].kind = "update"
          => IsSome(reqs[s].loc.file) /\ reqs[s].loc.file # Get(row).image_path

\* The store statement after a failed removal: unless the store fails, the
\* update writes the row with the new image reference and the delete removes
\* the row, and the request gets its normal answer.
C21_WriteAfterFailedRelease ==
  \A s \in Slots :
    (ReleaseFailed(s) /\ Steps(s) /\ IsSome(last') /\ ~StoreFailed(s))
    => LET row == Get(SelectAnime(reqs[s].id, reqs[s].uid))
           v == UpdateValues(reqs[s].body)
       IN IF reqs[s].kind = "update"
          THEN /\ anime' = (anime \ {row}) \cup
                             {[row EXCEPT !.title = v.title, !.rating = v.rating,
                                          !.episodes = v.episodes, !.genre = v.genre,
                                          !.image_path = reqs[s].loc.file]}
               /\ Get(Get(last').resp) =
                    Redirect(IF impl = "server" THEN "/dashboard"
                             ELSE "/dashboard?success=Data berhasil diperbarui")
          ELSE /\ reqs[s].kind = "delete"
               /\ anime' = anime \ {row}
               /\ Get(Get(last').resp) =
                    Redirect(IF impl = "server" THEN "/dashboard"
                             ELSE "/dashboard?success=Anime dihapus")

\* C21: when an update or delete has to release the entry's stored image and
\* the file removal fails, the store statement still takes place (the row is
\* updated with the new image reference, respectively deleted) and the request
\* completes with its normal outcome.
C21_FailedReleaseDoesNotBlock ==
  [][C21_FailedReleaseStep /\ C21_WriteAfterFailedRelease]_vars

\* An update of the first user's entry with a new image has been answered
\* normally and the row names the new image, while the file of the entry's old
\* image, whose removal failed, is still in storage.
C21_Witness ==
  /\ Answered("update") /\ ~Get(last).err /\ Get(last).id = 1
  /\ Answer = Redirect(IF impl = "server" THEN "/dashboard"
                       ELSE "/dashboard?success=Data berhasil diperbarui")
  /\ \E e \in anime :
       /\ e.id = Get(last).id /\ e.user_id = Get(last).uid
       /\ IsSome(Get(last).loc.file) /\ e.image_path = Get(last).loc.file
  /\ StoredName(Get(Cover), 1) \in DOMAIN files
  /\ \A s \in Slots : reqs[s].unlink = None

\* ------------------------------------------------------------------ C22

\* The files the step removes from storage.
Removed == {n \in DOMAIN files : n \notin DOMAIN files'}

\* C22: a removal executed for an update or delete request on entry E that
\* is still in flight takes from storage at most the one file the request has
\* read from E's image reference, and that file is the image reference of no
\* entry other than E.
C22_RemovesOnlyOwnAsset ==
  [][\A s \in Slots :
       (reqs[s].kind \in {"update", "delete"} /\ IsSome(reqs[s].unlink)
          /\ reqs'[s].unlink = None)
       => /\ Removed \subseteq {Get(reqs[s].unlink)}
          /\ \A e \in anime :
               (IsSome(e.image_path) /\ Get(e.image_path) \in Removed)
                 => e.id = reqs[s].id]_vars

\* The first half of C22, which holds: a step removes at most one file, the
\* one whose removal a request has issued from the image reference it read.
C22_AtMostTheIssuedFile ==
  [][\A n \in Removed : \E s \in Slots :
       reqs[s].unlink = Some(n) /\ reqs'[s].unlink = None /\ Removed = {n}]_vars

\* ------------------------------------------------------------------ C23

\* The columns of a row an update does not write.
Fixed(a) == [id |-> a.id, user_id |-> a.user_id, created_at |-> a.created_at]

\* A step of an update request: no row is created or deleted, every entry
\* other than the one the request names is as it was, and that one keeps
\* its id, owner and creation time.
C23_UpdateStep ==
  \A s \in Slots :
    (reqs[s].kind = "update" /\ Steps(s))
    => /\ Cardinality(anime') = Cardinality(anime)
       /\ {Fixed(a) : a \in anime'} = {Fixed(a) : a \in anime}
       /\ \A a \in anime : a.id # reqs[s].id => a \in anime'

\* An entry's owner and creation time stay as they are while the entry
\* exists, whatever the step.
C23_OwnerFixed ==
  \A a \in anime : \A c \in anime' : c.id = a.id => Fixed(c) = Fixed(a)

\* No two rows have the same id: an entry has one owner.
C23_OneOwner == \A a, c \in anime : a.id = c.id => a = c

\* C23: an update changes only title, rating, episodes, genre and image
\* reference of the entry it names; it never changes that entry's id, owner
\* or creation time, never changes another entry and never creates or
\* deletes a row; every entry has exactly one owner, the same from its
\* creation to its deletion.
C23_UpdateFrame == [](C23_OneOwner) /\ [][C23_UpdateStep /\ C23_OwnerFixed]_vars

\* An update by the owner has been answered with no store failure: the entry
\* carries the new title under the same owner, and another user's entry is
\* there with the title it was added with.
C23_Witness ==
  /\ Answered("update") /\ ~Get(last).err
  /\ \E e, o \in anime :
       /\ e.id = Get(last).id /\ e.user_id = Get(last).uid
       /\ e.title = UpdateValues(UpdateBody).title
       /\ o.user_id # e.user_id /\ o.title = AddValues(AddBody).title

\* ------------------------------------------------------------------ C24

\* No request is in flight and no removal is pending.
Quiescent == \A s \in Slots : Free(s)

\* C24: once the requests have completed, every entry whose image reference
\* is not null names a file that exists in storage.
C24_ReferencesExist ==
  Quiescent =>
    \A e \in anime : IsSome(e.image_path) => Get(e.image_path) \in DOMAIN files

\* ------------------------------------------------------------------ C25

\* C25: once the requests have completed, every file in storage is the image
\* reference of some entry.
C25_NoOrphanFiles ==
  Quiescent => \A n \in DOMAIN files : \E e \in anime : e.image_path = Some(n)

=============================================================================
